---- MODULE Spec2Model ----
(***************************************************************************)
(* TeleRSS delivery pipeline: the poll scheduler (scheduler/index.ts),     *)
(* the orchestrator checkFeed with its per-destination delivery lock       *)
(* (rss/fetcher.ts), the dedup ledger (DeliveredItem table) and the        *)
(* management calls that start checks (api/feeds.ts).                      *)
(* Further: the scheduler's registry and cron expressions, the shutdown of *)
(* the process (index.ts) and the forum topics of a chat (bot/topics.ts).  *)
(*                                                                         *)
(* JavaScript runs one callback at a time: an action is the code that runs *)
(* between two awaits of one invocation, so every await is a point where   *)
(* other invocations interleave.                                           *)
(***************************************************************************)
EXTENDS Integers, Sequences, FiniteSets, TLC

\* ------------------------------------------------------------------ bounds
\* number of checkFeed invocations (cycles) started in one behaviour
MaxCycles == 3
\* number of concurrent callers of sendArticle in LockSpec
MaxSenders == 3
\* length of the item lists sorted in SortSpec
MaxItems == 3
\* how far the clock of PaceSpec runs past its start, in ms
MaxClock == 5000
\* number of cron tasks created in one behaviour of SchedSpec
MaxTasks == 3
\* number of forum topics created in one behaviour of TopicSpec
MaxTopics == 2
\* how far the clock of ProbeSpec runs, in steps of 30 s
MaxProbeSteps == 12
\* the clock of LoginSpec stops after this many steps of 2 s
MaxLoginSteps == 8
\* the clock of BotSpec stops after this many steps of 5 s
MaxBotSteps == 8

\* ---------------------------------------------------------------- universe
Feeds == {"f1", "f2"}
Chats == {"c1", "c2"}
Guids == {"a", "b"}
\* slots for the checkFeed invocations in flight at one time
Procs == {1, 2}
Senders == 1..MaxSenders

Range(s) == {s[k] : k \in 1..Len(s)}

\* An article as parseFeed returns it: guid ("" when the item has neither guid
\* nor link), and an optional publish time in ms since the epoch (negative
\* before 1970).
Item(g, d, t) == [guid |-> g, dated |-> d, time |-> t]

\* A configuration of the store and of the feeds' documents:
\*   active  the feeds whose active flag is set
\*   subs    the active subscriptions of each feed (chat ids, in store order)
\*   thread  the feeds whose subscriptions have a topicThreadId stored (for
\*           the others ensureTopicForSubscription resolves to no thread)
\*   doc     the document a fetch of the feed returns, in parser order
Configs ==
  { \* two feeds deliver to the same chat; f1 carries two articles
    [active |-> {"f1", "f2"},
     subs   |-> [f \in Feeds |-> <<"c1">>],
     thread |-> {"f2"},
     doc    |-> [f \in Feeds |->
                  IF f = "f1" THEN <<Item("a", TRUE, 2), Item("b", TRUE, 1)>>
                              ELSE <<Item("", TRUE, 1), Item("a", TRUE, 3)>>]],
    \* one feed with two destinations; f2 has no active subscription
    [active |-> {"f1", "f2"},
     subs   |-> [f \in Feeds |-> IF f = "f1" THEN <<"c1", "c2">> ELSE <<>>],
     thread |-> {},
     doc    |-> [f \in Feeds |-> <<Item("a", FALSE, 0)>>]],
    \* one feed with two destinations and stored thread ids; f2 is inactive
    [active |-> {"f1"},
     subs   |-> [f \in Feeds |-> IF f = "f1" THEN <<"c1", "c2">> ELSE <<"c2">>],
     thread |-> {"f1"},
     doc    |-> [f \in Feeds |-> <<Item("a", FALSE, 0)>>]] }

VARIABLES
  config,       \* the configuration (see Configs); it does not change
  jobs,         \* scheduler registry: feeds that have a live cron task
  ledger,       \* DeliveredItem rows: per feed and guid, the rows' chatId
  lastChecked,  \* feeds whose lastCheckedAt was written
  proc,         \* the checkFeed invocations in flight (a slot is idle or running)
  chain,        \* chatDeliveryQueue: per chat, the unreleased `current`
                \* promises of the chain, in the order they were chained
  awaiting,     \* per invocation, the unreleased promises its `previous` holds
  started,      \* number of checkFeed invocations started so far
  received,     \* history: chats that got a successful send, per feed and guid
  caller,       \* LockSpec: per caller of sendArticle, where it is and its chat
  sortIn,       \* SortSpec: the items parseFeed returned
  sortOut,      \* SortSpec: itemsToSend, once sorted
  now,          \* PaceSpec: Date.now(), in ms
  lastChatSendAt, \* PaceSpec: the map lastChatSendAt (chats that have an entry)
  sendEnded,    \* PaceSpec, history: per chat, when its last send ended and how
  op,           \* ArticleSpec: the sendArticle task and its retry loop
  tasks,        \* SchedSpec: the cron tasks created so far (feed, running or
                \* stopped); there `jobs` is the Map itself, feed id -> task
  checks,       \* SchedSpec: per task, its callbacks in flight
  lastCall,     \* SchedSpec, history: the last step (what, feed, task)
  cron,         \* CronSpec: one cron task, the clock and its last firing
  phase,        \* ShutdownSpec: how far the shutdown of the process has got
  topicThreadId, \* TopicSpec: per subscription, the stored thread id (0: null)
  topics,       \* TopicSpec: the forum topics created in the chat, by thread id
  ensure,       \* TopicSpec: the ensureTopicForSubscription invocations in
                \* flight, with their caller's use of the result
  probe,        \* ProbeSpec: forumCapabilityCache of one chat and the
                \* isForumEnabledSupergroup calls in flight
  fetch,        \* FetchSpec: one fetchUrlWithRetry call
  mgmt,         \* FeedsSpec: the Feed table and the requests in flight
  login,        \* LoginSpec: the failed-attempt record of one client
  bot           \* BotSpec: the bot client's module state

\* the variables of PaceSpec and ArticleSpec
timed == <<now, lastChatSendAt, sendEnded, op>>
\* the variables of SchedSpec, but for jobs
schedVars == <<tasks, checks, lastCall>>
\* the variables of TopicSpec
topicVars == <<topicThreadId, topics, ensure>>
\* the variables of ProbeSpec, FetchSpec, FeedsSpec, LoginSpec and BotSpec
late == <<probe, fetch, mgmt, login, bot>>
\* the variables of the later specifications
extra == <<schedVars, cron, phase, topicVars, late>>
\* the variables of the other specifications
aux == <<caller, sortIn, sortOut, timed, extra>>

\* the value of the variables of PaceSpec and ArticleSpec where they are not used
TimedParked ==
  /\ now = 0
  /\ lastChatSendAt = <<>>
  /\ sendEnded = <<>>
  /\ op = <<>>

\* the variables of the later specifications when the process has started and
\* nothing was scheduled yet
SchedParked ==
  /\ tasks = <<>>
  /\ checks = <<>>
  /\ lastCall = [what |-> "none", feed |-> "f1", task |-> 0]
  /\ cron = [n |-> 0, clock |-> 0, last |-> -1, gap |-> 0]
  /\ phase = "up"
  /\ probe = [set |-> FALSE, isForum |-> FALSE, checkedAt |-> 0,
              call |-> [c \in Procs |-> [pc |-> "idle", at |-> 0]],
              lastDone |-> -1]
  /\ fetch = [pc |-> "idle", attempt |-> 0, left |-> 0, hops |-> 0,
              url |-> [literal |-> FALSE, safe |-> TRUE],
              host |-> [literal |-> FALSE, safe |-> TRUE], unsafe |-> FALSE,
              status |-> 0, allowed |-> FALSE, retryAfter |-> -1,
              delayMs |-> 0, err |-> ""]
  /\ mgmt = [table |-> [f \in Feeds |-> IF f = "f1" THEN "active" ELSE "new"],
             jobs |-> {},
             req |-> [q \in Procs |-> [pc |-> "idle", feed |-> "f1",
                                       resched |-> FALSE, active |-> FALSE]],
             boot |-> [pc |-> "findMany", found |-> {}]]
  /\ login = [has |-> FALSE, count |-> 0, lastAttempt |-> 0, delayMs |-> 0,
              res |-> [outcome |-> "none", at |-> 0]]
  /\ bot = [botInstance |-> FALSE, botStarted |-> FALSE,
            botConnected |-> FALSE, botConnecting |-> FALSE,
            lastLaunchError |-> FALSE, failedAt |-> 0,
            reconnectTimer |-> FALSE, due |-> 0, timers |-> 0,
            launchInFlight |-> FALSE, pc |-> "none", launches |-> 0,
            stopped |-> FALSE]

\* the same, and the variables of TopicSpec where they are not used
ExtraParked ==
  /\ SchedParked
  /\ topicThreadId = <<>>
  /\ topics = <<>>
  /\ ensure = <<>>

\* the variables of checkFeed and the scheduler, but for the delivery queue
core == <<config, jobs, ledger, lastChecked, proc, started, received>>
\* the variables of the specifications up to TopicSpec, but for `timed`
early == <<core, chain, awaiting, caller, sortIn, sortOut, schedVars, cron,
           phase, topicVars>>

vars == <<config, jobs, ledger, lastChecked, proc, chain, awaiting,
          started, received, aux>>

Idle == [pc |-> "idle", feed |-> "f1", origin |-> "none", subs |-> <<>>,
         items |-> <<>>, i |-> 0, j |-> 0, sentAny |-> FALSE,
         thread |-> FALSE, retried |-> FALSE, okChats |-> {},
         known |-> {}]

\* ------------------------------------------------------------- pure helpers
\* a.pubDate?.getTime() ?? 0
SortKey(it) == IF it.dated THEN it.time ELSE 0

\* Array.prototype.sort with the comparator aTime - bTime: stable, ascending.
RECURSIVE InsertSorted(_, _)
InsertSorted(s, it) ==
  IF s = <<>> THEN <<it>>
  ELSE IF SortKey(it) - SortKey(s[Len(s)]) < 0
         THEN Append(InsertSorted(SubSeq(s, 1, Len(s) - 1), it), s[Len(s)])
         ELSE Append(s, it)

RECURSIVE SortFrom(_, _)
SortFrom(acc, rest) ==
  IF rest = <<>> THEN acc
  ELSE SortFrom(InsertSorted(acc, rest[1]), Tail(rest))

ItemsToSend(doc) == SortFrom(<<>>, doc)

RemoveFrom(s, x) == SelectSeq(s, LAMBDA y : y # x)

\* ------------------------------------------------------------ dedup ledger
\* (mutant) the lookup never finds the row
FindRowNever(f, g) == FALSE

\* (mutant) the article counts as delivered only when every subscription of
\* the feed received it
FindRowPerDestination(f, g) ==
  ledger[f][g] # <<>> /\ Range(config.subs[f]) \subseteq received[f][g]

\* prisma.deliveredItem.findUnique({feedId_articleGuid})
FindRow(f, g) == ledger[f][g] # <<>>

\* The unique index DeliveredItem_feedId_articleGuid_key: an insert of a second
\* row for the same (feedId, articleGuid) is rejected.
UniqueViolation(rows) == rows # <<>>

\* prisma.deliveredItem.deleteMany({where: {feedId}})
ClearedRows == [g \in Guids |-> <<>>]

\* ------------------------------------------------- checkFeed, loop control
\* (mutant) an item without guid ends the loop
NextItemBreak(r, k) ==
  IF k > Len(r.items) \/ r.items[k].guid = ""
    THEN [r EXCEPT !.pc = "stamp", !.i = 0, !.j = 0, !.sentAny = FALSE,
                   !.thread = FALSE, !.retried = FALSE, !.okChats = {}]
    ELSE [r EXCEPT !.pc = "find", !.i = k, !.j = 0, !.sentAny = FALSE,
                   !.thread = FALSE, !.retried = FALSE, !.okChats = {}]

\* for (const item of itemsToSend) { if (!item.guid) continue; ... findUnique
RECURSIVE NextItem(_, _)
NextItem(r, k) ==
  IF k > Len(r.items) THEN [r EXCEPT !.pc = "stamp", !.i = 0, !.j = 0,
                                     !.sentAny = FALSE, !.thread = FALSE,
                                     !.retried = FALSE, !.okChats = {}]
  ELSE IF r.items[k].guid = "" THEN NextItem(r, k + 1)
  ELSE [r EXCEPT !.pc = "find", !.i = k, !.j = 0, !.sentAny = FALSE,
                 !.thread = FALSE, !.retried = FALSE, !.okChats = {}]

\* for (const sub of feed.subscriptions) { let threadId = sub.topicThreadId;
\* with a stored thread id sendArticle is called at once and queues on the
\* chat ("wait"); without one ensureTopicForSubscription is awaited ("topic").
StartSub(r, k) ==
  IF r.feed \in config.thread
    THEN [r EXCEPT !.pc = "wait", !.j = k, !.thread = TRUE, !.retried = FALSE]
    ELSE [r EXCEPT !.pc = "topic", !.j = k, !.thread = FALSE, !.retried = FALSE]

\* (mutant) the insert is reached whether or not a send succeeded
AfterSubCommitAlways(r) ==
  IF r.j < Len(r.subs) THEN StartSub(r, r.j + 1)
  ELSE [r EXCEPT !.pc = "create", !.thread = FALSE, !.retried = FALSE]

\* end of one subscription's try/catch: the next subscription, or after the
\* last one `if (!sentToAnySubscription) continue;` else the ledger insert
AfterSub(r) ==
  IF r.j < Len(r.subs) THEN StartSub(r, r.j + 1)
  ELSE IF ~r.sentAny THEN NextItem(r, r.i + 1)
  ELSE [r EXCEPT !.pc = "create", !.thread = FALSE, !.retried = FALSE]

CurGuid(r) == r.items[r.i].guid
CurChat(r) == r.subs[r.j]

\* ------------------------------------------------------ the delivery queue
\* chatDeliveryQueue and the promises the calls in progress hold
Queue == [chain |-> chain, awaiting |-> awaiting]

\* withChatDeliveryLock up to `await previous`: previous = the chain so far,
\* and the chain is extended by this call's `current`.
Enqueue(q, p, c) ==
  [chain    |-> [q.chain EXCEPT ![c] = Append(@, p)],
   awaiting |-> [q.awaiting EXCEPT ![p] = Range(q.chain[c])]]

\* (mutant) the finally block deletes the chat's queue entry whatever it holds
ReleaseAndDelete(q, p, c) ==
  [chain    |-> [q.chain EXCEPT ![c] = <<>>],
   awaiting |-> [x \in DOMAIN q.awaiting |-> q.awaiting[x] \ {p}]]

\* finally { lastChatSendAt.set(...); release(); ... }: `current` resolves, and
\* the chat's entry is deleted if it is still this call's.
Release(q, p, c) ==
  [chain    |-> [q.chain EXCEPT ![c] = RemoveFrom(@, p)],
   awaiting |-> [x \in DOMAIN q.awaiting |-> q.awaiting[x] \ {p}]]

\* The invocation went on to r2: if that is a call of sendArticle, it has
\* queued on the subscription's chat.
Entered(q, p, r2) ==
  IF r2.pc = "wait" THEN Enqueue(q, p, r2.subs[r2.j]) ELSE q

SetQueue(q) == chain' = q.chain /\ awaiting' = q.awaiting

\* ------------------------------------------------------------ start a check
HasFree == started < MaxCycles /\ \E p \in Procs : proc[p].pc = "idle"
FreeSlot == CHOOSE p \in Procs :
              /\ proc[p].pc = "idle"
              /\ \A q \in Procs : proc[q].pc = "idle" => p <= q

\* checkFeed(feedId) is called: it runs up to its first await
\* (prisma.feed.findUnique).
Begin(f, o) == [Idle EXCEPT !.pc = "load", !.feed = f, !.origin = o]

Init ==
  /\ config \in Configs
  /\ jobs = config.active
  /\ ledger = [f \in Feeds |-> ClearedRows]
  /\ lastChecked = {}
  /\ proc = [p \in Procs |-> Idle]
  /\ chain = [c \in Chats |-> <<>>]
  /\ awaiting = [p \in Procs |-> {}]
  /\ started = 0
  /\ received = [f \in Feeds |-> [g \in Guids |-> {}]]
  /\ caller = <<>>
  /\ sortIn = <<>>
  /\ sortOut = <<>>
  /\ TimedParked
  /\ ExtraParked

\* --------------------------------------------------------------- scheduler
\* The cron task of scheduleFeed fires: async () => { await checkFeed(feedId) }.
\* node-cron runs the callback at every matching minute; nothing in the
\* callback or in scheduleFeed looks at a check that is still running.
TimerFire(f) ==
  /\ f \in jobs
  /\ HasFree
  /\ proc' = [proc EXCEPT ![FreeSlot] = Begin(f, "timer")]
  /\ started' = started + 1
  /\ UNCHANGED <<aux, config, jobs, ledger, lastChecked, chain, awaiting,
                 received>>

\* ------------------------------------------------------------- management
\* POST /api/feeds/:id/refresh
Refresh(f) ==
  /\ HasFree
  /\ proc' = [proc EXCEPT ![FreeSlot] = Begin(f, "manual")]
  /\ started' = started + 1
  /\ UNCHANGED <<aux, config, jobs, ledger, lastChecked, chain, awaiting,
                 received>>

\* POST /api/feeds/:id/force-push: deleteMany of the feed's rows, then checkFeed
ForcePush(f) ==
  /\ HasFree
  /\ ledger' = [ledger EXCEPT ![f] = ClearedRows]
  /\ proc' = [p \in Procs |->
               IF p = FreeSlot THEN Begin(f, "manual")
               ELSE IF proc[p].pc # "idle" /\ proc[p].feed = f
                      THEN [proc[p] EXCEPT !.known = {}]
                      ELSE proc[p]]
  /\ started' = started + 1
  /\ UNCHANGED <<aux, config, jobs, lastChecked, chain, awaiting, received>>

\* ---------------------------------------------------------------- checkFeed
\* const feed = await prisma.feed.findUnique(...);
\* if (!feed || !feed.active) return; if (feed.subscriptions.length === 0) return;
Load(p) ==
  LET r == proc[p] IN
  /\ r.pc = "load"
  /\ proc' = [proc EXCEPT ![p] =
       IF r.feed \notin config.active \/ config.subs[r.feed] = <<>>
         THEN Idle
         ELSE [r EXCEPT !.pc = "parse", !.subs = config.subs[r.feed],
                        !.known = {g \in Guids : ledger[r.feed][g] # <<>>}]]
  /\ UNCHANGED <<aux, config, jobs, ledger, lastChecked, chain, awaiting,
                 started, received>>

\* (mutant) the catch block returns without the update
ParseFailReturn(p) ==
  LET r == proc[p] IN
  /\ r.pc = "parse"
  /\ proc' = [proc EXCEPT ![p] = Idle]
  /\ UNCHANGED <<aux, config, jobs, ledger, lastChecked, chain, awaiting,
                 started, received>>

\* parsedFeed = await parseFeed(feed.url) threw: the catch block goes on to
\* update lastCheckedAt and return.
ParseFail(p) ==
  LET r == proc[p] IN
  /\ r.pc = "parse"
  /\ proc' = [proc EXCEPT ![p] = [r EXCEPT !.pc = "stamp"]]
  /\ UNCHANGED <<aux, config, jobs, ledger, lastChecked, chain, awaiting,
                 started, received>>

\* parseFeed returned: itemsToSend = [...items].sort(...), then the loop runs
\* up to its first findUnique.
ParseOk(p, doc) ==
  LET r == proc[p] IN
  /\ r.pc = "parse"
  /\ doc = config.doc[r.feed]
  /\ proc' = [proc EXCEPT ![p] =
                NextItem([r EXCEPT !.items = ItemsToSend(doc)], 1)]
  /\ UNCHANGED <<aux, config, jobs, ledger, lastChecked, chain, awaiting,
                 started, received>>

\* (mutant) the row is inserted before the sends, as soon as the article is
\* found unseen
FindUniqueCommitFirst(p) ==
  LET r == proc[p]
      r2 == IF FindRow(r.feed, CurGuid(r)) THEN NextItem(r, r.i + 1)
                                           ELSE StartSub(r, 1) IN
  /\ r.pc = "find"
  /\ proc' = [proc EXCEPT ![p] = r2]
  /\ SetQueue(Entered(Queue, p, r2))
  /\ ledger' = IF FindRow(r.feed, CurGuid(r)) THEN ledger
               ELSE [ledger EXCEPT ![r.feed][CurGuid(r)] = Append(@, r.subs[1])]
  /\ UNCHANGED <<aux, config, jobs, lastChecked, started, received>>

\* const existing = await prisma.deliveredItem.findUnique(...);
\* if (existing) continue; otherwise the first subscription.
FindUnique(p) ==
  LET r == proc[p]
      r2 == IF FindRow(r.feed, CurGuid(r)) THEN NextItem(r, r.i + 1)
                                           ELSE StartSub(r, 1) IN
  /\ r.pc = "find"
  /\ proc' = [proc EXCEPT ![p] = r2]
  /\ SetQueue(Entered(Queue, p, r2))
  /\ UNCHANGED <<aux, config, jobs, ledger, lastChecked, started, received>>

\* threadId = await ensureTopicForSubscription(...) returned no thread id;
\* sendArticle is called without one and queues on the chat.
Topic(p) ==
  LET r == proc[p] IN
  /\ r.pc = "topic"
  /\ proc' = [proc EXCEPT ![p] = [r EXCEPT !.pc = "wait"]]
  /\ SetQueue(Enqueue(Queue, p, CurChat(r)))
  /\ UNCHANGED <<aux, config, jobs, ledger, lastChecked, started, received>>

\* threadId = await ensureTopicForSubscription(...) rejected (a store call of
\* it failed): the await is outside the try of the subscription, so checkFeed
\* itself rejects; its caller logs the error.
TopicThrow(p) ==
  LET r == proc[p] IN
  /\ r.pc = "topic"
  /\ proc' = [proc EXCEPT ![p] = Idle]
  /\ UNCHANGED <<aux, config, jobs, ledger, lastChecked, chain, awaiting,
                 started, received>>

\* (mutant) the call does not wait for `previous`
CanStartNoWait(p) == TRUE

\* `await previous.catch(() => {})` returns: every promise of `previous` is
\* released. The pacing sleep and the task follow.
CanStart(p) == awaiting[p] = {}

Acquire(p) ==
  LET r == proc[p] IN
  /\ r.pc = "wait"
  /\ CanStart(p)
  /\ proc' = [proc EXCEPT ![p] = [r EXCEPT !.pc = "send"]]
  /\ UNCHANGED <<aux, config, jobs, ledger, lastChecked, chain, awaiting,
                 started, received>>

\* (mutant) the flag is set after the try/catch, failed or not
SentToAnyAlways(sentAny, outcome) == TRUE

\* try { await sendArticle(...); sentToAnySubscription = true; } catch ...
SentToAny(sentAny, outcome) == sentAny \/ outcome = "ok"

\* (mutant) the recovery is tried after every thread-not-found error
RecoversAgain(r, outcome) == outcome = "missing" /\ r.thread

\* catch (err) { if (typeof threadId === 'number' && isMissingTopicError(err))
\* around the first send of a subscription; a throw of the second send lands
\* in catch (recreateErr), which only logs.
Recovers(r, outcome) == outcome = "missing" /\ r.thread /\ ~r.retried

\* The task of sendArticle (sendPhoto with retries, fallback, sendMessage with
\* retries) ends: "ok", "missing" (a thread-not-found error) or "fail". The
\* lock is released and checkFeed runs on to its next await.
SendDone(p, outcome) ==
  LET r == proc[p]
      f == r.feed
      g == CurGuid(r)
      c == CurChat(r)
      r2 == [r EXCEPT !.sentAny = SentToAny(r.sentAny, outcome),
                      !.okChats = IF outcome = "ok" THEN @ \cup {c} ELSE @]
      r3 == IF Recovers(r, outcome) THEN [r2 EXCEPT !.pc = "recreate"]
                                    ELSE AfterSub(r2) IN
  /\ r.pc = "send"
  /\ outcome \in {"ok", "missing", "fail"}
  /\ proc' = [proc EXCEPT ![p] = r3]
  /\ SetQueue(Entered(Release(Queue, p, c), p, r3))
  /\ received' = IF outcome = "ok"
                   THEN [received EXCEPT ![f][g] = @ \cup {c}]
                   ELSE received
  /\ UNCHANGED <<aux, config, jobs, ledger, lastChecked, started>>

\* recreatedThreadId = await ensureTopicForSubscription({forceRecreate: true}):
\* a number, and sendArticle is called once more; or none or a throw, and the
\* subscription is given up for this article.
Recreate(p, got) ==
  LET r == proc[p] IN
  /\ r.pc = "recreate"
  /\ IF got
       THEN /\ proc' = [proc EXCEPT ![p] = [r EXCEPT !.pc = "wait",
                                                    !.retried = TRUE]]
            /\ SetQueue(Enqueue(Queue, p, CurChat(r)))
       ELSE /\ proc' = [proc EXCEPT ![p] = AfterSub(r)]
            /\ SetQueue(Entered(Queue, p, AfterSub(r)))
  /\ UNCHANGED <<aux, config, jobs, ledger, lastChecked, started, received>>

\* await prisma.deliveredItem.create(...): the row is inserted, or the unique
\* index rejects it (continue), or the store fails (logged).
Create(p, dbOk) ==
  LET r == proc[p]
      f == r.feed
      g == CurGuid(r) IN
  /\ r.pc = "create"
  /\ ledger' = IF dbOk /\ ~UniqueViolation(ledger[f][g])
                 THEN [ledger EXCEPT ![f][g] = Append(@, r.subs[1])]
                 ELSE ledger
  /\ proc' = [proc EXCEPT ![p] = NextItem(r, r.i + 1)]
  /\ UNCHANGED <<aux, config, jobs, lastChecked, chain, awaiting, started,
                 received>>

\* await prisma.feed.update({data: {lastCheckedAt: new Date()}}), and return
Stamp(p) ==
  LET r == proc[p] IN
  /\ r.pc = "stamp"
  /\ lastChecked' = lastChecked \cup {r.feed}
  /\ proc' = [proc EXCEPT ![p] = Idle]
  /\ UNCHANGED <<aux, config, jobs, ledger, chain, awaiting, started,
                 received>>

\* The process dies and is started again: every invocation and the in-memory
\* queue are lost, the store is kept, startScheduler schedules the active
\* feeds.
Crash ==
  /\ proc' = [p \in Procs |-> Idle]
  /\ chain' = [c \in Chats |-> <<>>]
  /\ awaiting' = [p \in Procs |-> {}]
  /\ jobs' = config.active
  /\ UNCHANGED <<aux, config, ledger, lastChecked, started, received>>

Next ==
  \/ \E f \in Feeds : TimerFire(f)
  \/ \E f \in Feeds : Refresh(f)
  \/ \E f \in Feeds : ForcePush(f)
  \/ \E p \in Procs : Load(p)
  \/ \E p \in Procs : ParseFail(p)
  \/ \E p \in Procs : ParseOk(p, config.doc[proc[p].feed])
  \/ \E p \in Procs : FindUnique(p)
  \/ \E p \in Procs : Topic(p)
  \/ \E p \in Procs : TopicThrow(p)
  \/ \E p \in Procs : Acquire(p)
  \/ \E p \in Procs : \E o \in {"ok", "missing", "fail"} : SendDone(p, o)
  \/ \E p \in Procs : \E got \in BOOLEAN : Recreate(p, got)
  \/ \E p \in Procs : \E dbOk \in BOOLEAN : Create(p, dbOk)
  \/ \E p \in Procs : Stamp(p)
  \/ Crash

Spec == Init /\ [][Next]_vars

\* The same with no force-push and no crash.
SteadyNext ==
  \/ \E f \in Feeds : TimerFire(f)
  \/ \E f \in Feeds : Refresh(f)
  \/ \E p \in Procs : Load(p)
  \/ \E p \in Procs : ParseFail(p)
  \/ \E p \in Procs : ParseOk(p, config.doc[proc[p].feed])
  \/ \E p \in Procs : FindUnique(p)
  \/ \E p \in Procs : Topic(p)
  \/ \E p \in Procs : TopicThrow(p)
  \/ \E p \in Procs : Acquire(p)
  \/ \E p \in Procs : \E o \in {"ok", "missing", "fail"} : SendDone(p, o)
  \/ \E p \in Procs : \E got \in BOOLEAN : Recreate(p, got)
  \/ \E p \in Procs : \E dbOk \in BOOLEAN : Create(p, dbOk)
  \/ \E p \in Procs : Stamp(p)

SteadySpec == Init /\ [][SteadyNext]_vars

\* ------------------------------------------------- one check at a time
\* No invocation is in flight.
Alone == \A p \in Procs : proc[p].pc = "idle"

\* Checks that do not overlap, started by the timer or by a force-push; chat
\* c1 (subscribed to every feed that is checked) accepts every send, the store
\* every insert, and the topic resolution returns.
PushNext ==
  \/ \E f \in Feeds : Alone /\ TimerFire(f)
  \/ \E f \in Feeds : Alone /\ ForcePush(f)
  \/ \E p \in Procs : Load(p)
  \/ \E p \in Procs : ParseOk(p, config.doc[proc[p].feed])
  \/ \E p \in Procs : FindUnique(p)
  \/ \E p \in Procs : Topic(p)
  \/ \E p \in Procs : Acquire(p)
  \/ \E p \in Procs : \E o \in {"ok", "missing", "fail"} :
       /\ proc[p].pc = "send"
       /\ CurChat(proc[p]) = "c1" => o = "ok"
       /\ SendDone(p, o)
  \/ \E p \in Procs : \E got \in BOOLEAN : Recreate(p, got)
  \/ \E p \in Procs : Create(p, TRUE)
  \/ \E p \in Procs : Stamp(p)

PushSpec == Init /\ [][PushNext]_vars

\* ------------------------------------------- fair scheduling, for liveness
\* The cron task fires with no bound on the number of firings.
TimerTick(f) ==
  /\ f \in jobs
  /\ \E p \in Procs : proc[p].pc = "idle"
  /\ proc' = [proc EXCEPT ![FreeSlot] = Begin(f, "timer")]
  /\ UNCHANGED <<aux, config, jobs, ledger, lastChecked, chain, awaiting,
                 started, received>>

\* One feed with two destinations whose chats have no topics, polled by its
\* timer for ever; every fetch returns the document.
LiveInit == Init /\ config.subs["f2"] = <<>>

LiveNext ==
  \/ \E f \in Feeds : TimerTick(f)
  \/ \E p \in Procs : Load(p)
  \/ \E p \in Procs : ParseOk(p, config.doc[proc[p].feed])
  \/ \E p \in Procs : FindUnique(p)
  \/ \E p \in Procs : Topic(p)
  \/ \E p \in Procs : Acquire(p)
  \/ \E p \in Procs : \E o \in {"ok", "fail"} : SendDone(p, o)
  \/ \E p \in Procs : \E dbOk \in BOOLEAN : Create(p, dbOk)
  \/ \E p \in Procs : Stamp(p)

\* Every await of an invocation returns.
Step(p) ==
  \/ Load(p)
  \/ ParseOk(p, config.doc[proc[p].feed])
  \/ FindUnique(p)
  \/ Topic(p)
  \/ Acquire(p)
  \/ \E o \in {"ok", "fail"} : SendDone(p, o)
  \/ \E dbOk \in BOOLEAN : Create(p, dbOk)
  \/ Stamp(p)

\* The timer of f1 keeps firing, chat c1 accepts a send sooner or later, and so
\* does the store an insert.
LiveSpec ==
  /\ LiveInit
  /\ [][LiveNext]_vars
  /\ \A p \in Procs : WF_vars(Step(p))
  /\ SF_vars(TimerTick("f1"))
  /\ \A p \in Procs :
       SF_vars(SendDone(p, "ok") /\ proc[p].subs[proc[p].j] = "c1")
  /\ \A p \in Procs : SF_vars(Create(p, TRUE))

\* ------------------------------------------------- the delivery lock alone
\* Any number of concurrent callers of sendArticle (checks of any feeds),
\* each calling withChatDeliveryLock for some chat.
LockInit ==
  /\ config = CHOOSE k \in Configs : k.thread # {}
  /\ jobs = {}
  /\ ledger = [f \in Feeds |-> ClearedRows]
  /\ lastChecked = {}
  /\ proc = [p \in Procs |-> Idle]
  /\ started = 0
  /\ received = [f \in Feeds |-> [g \in Guids |-> {}]]
  /\ chain = [c \in Chats |-> <<>>]
  /\ awaiting = [s \in Senders |-> {}]
  /\ caller = [s \in Senders |-> [pc |-> "idle", chat |-> "c1"]]
  /\ sortIn = <<>>
  /\ sortOut = <<>>
  /\ TimedParked
  /\ ExtraParked

\* sendArticle(bot, chatId, ...) is called: withChatDeliveryLock runs up to
\* `await previous`.
LockCall(s, c) ==
  /\ caller[s].pc = "idle"
  /\ SetQueue(Enqueue(Queue, s, c))
  /\ caller' = [caller EXCEPT ![s] = [pc |-> "wait", chat |-> c]]
  /\ UNCHANGED <<core, extra, sortIn, sortOut, timed>>

\* `await previous.catch(() => {})` returns; the pacing sleep and the task run
LockStart(s) ==
  /\ caller[s].pc = "wait"
  /\ CanStart(s)
  /\ caller' = [caller EXCEPT ![s].pc = "send"]
  /\ UNCHANGED <<core, extra, chain, awaiting, sortIn, sortOut, timed>>

\* the task returned or threw: the finally block releases
LockFinish(s) ==
  /\ caller[s].pc = "send"
  /\ SetQueue(Release(Queue, s, caller[s].chat))
  /\ caller' = [caller EXCEPT ![s] = [pc |-> "idle", chat |-> "c1"]]
  /\ UNCHANGED <<core, extra, sortIn, sortOut, timed>>

LockNext ==
  \/ \E s \in Senders : \E c \in Chats : LockCall(s, c)
  \/ \E s \in Senders : LockStart(s)
  \/ \E s \in Senders : LockFinish(s)

LockSpec == LockInit /\ [][LockNext]_vars

\* ----------------------------------------- the delivery lock, with its clock
PER_CHAT_MIN_INTERVAL_MS == 1250

\* the callers of sendArticle in PaceSpec
Pacers == {1, 2}

\* The time that passes between two steps: just under the interval, the
\* interval, or more.
Elapses == {PER_CHAT_MIN_INTERVAL_MS - 1, PER_CHAT_MIN_INTERVAL_MS,
            2 * PER_CHAT_MIN_INTERVAL_MS + 1}

\* Math.max(0, x)
Max0(x) == IF x > 0 THEN x ELSE 0

\* lastChatSendAt.get(chatId) ?? 0
LastSentAt(c) == IF c \in DOMAIN lastChatSendAt THEN lastChatSendAt[c] ELSE 0

\* const waitMs = Math.max(0, lastSentAt + PER_CHAT_MIN_INTERVAL_MS - now)
WaitMs(c) == Max0(LastSentAt(c) + PER_CHAT_MIN_INTERVAL_MS - now)

\* (mutant) the time is recorded after a successful task only
SetLastSendAtIfOk(c, ok) ==
  IF ok THEN (c :> now) @@ lastChatSendAt ELSE lastChatSendAt

\* finally { lastChatSendAt.set(chatId, Date.now()); ...
SetLastSendAt(c, ok) == (c :> now) @@ lastChatSendAt

\* The process has started (long after the epoch): both maps are empty.
PaceInit ==
  /\ config = CHOOSE k \in Configs : k.thread # {}
  /\ jobs = {}
  /\ ledger = [f \in Feeds |-> ClearedRows]
  /\ lastChecked = {}
  /\ proc = [p \in Procs |-> Idle]
  /\ started = 0
  /\ received = [f \in Feeds |-> [g \in Guids |-> {}]]
  /\ chain = [c \in Chats |-> <<>>]
  /\ awaiting = [s \in Pacers |-> {}]
  /\ caller = [s \in Pacers |-> [pc |-> "idle", chat |-> "c1", wake |-> 0,
                                  since |-> 0]]
  /\ sortIn = <<>>
  /\ sortOut = <<>>
  /\ now = PER_CHAT_MIN_INTERVAL_MS
  /\ lastChatSendAt = <<>>
  /\ sendEnded = <<>>
  /\ op = <<>>
  /\ ExtraParked

\* Time passes.
Elapse(d) ==
  /\ now + d <= PER_CHAT_MIN_INTERVAL_MS + MaxClock
  /\ now' = now + d
  /\ UNCHANGED <<core, extra, chain, awaiting, caller, sortIn, sortOut,
                 lastChatSendAt, sendEnded, op>>

\* sendArticle(bot, chatId, ...) is called: withChatDeliveryLock runs up to
\* `await previous`.
PaceCall(s, c) ==
  /\ caller[s].pc = "idle"
  /\ SetQueue(Enqueue(Queue, s, c))
  /\ caller' = [caller EXCEPT ![s] = [pc |-> "wait", chat |-> c, wake |-> 0,
                                      since |-> 0]]
  /\ UNCHANGED <<core, extra, sortIn, sortOut, timed>>

\* `await previous` returns: now and lastSentAt are read; either
\* `await sleep(waitMs)` or, with nothing to wait, the task starts.
PaceAcquire(s) ==
  LET c == caller[s].chat IN
  /\ caller[s].pc = "wait"
  /\ CanStart(s)
  /\ caller' = [caller EXCEPT ![s] =
                  IF WaitMs(c) > 0
                    THEN [@ EXCEPT !.pc = "sleep", !.wake = now + WaitMs(c)]
                    ELSE [@ EXCEPT !.pc = "send", !.since = now]]
  /\ UNCHANGED <<core, extra, chain, awaiting, sortIn, sortOut, timed>>

\* The timer of sleep(waitMs) fires, not before its time: the task starts.
PaceWake(s) ==
  /\ caller[s].pc = "sleep"
  /\ now >= caller[s].wake
  /\ caller' = [caller EXCEPT ![s] = [@ EXCEPT !.pc = "send", !.since = now]]
  /\ UNCHANGED <<core, extra, chain, awaiting, sortIn, sortOut, timed>>

\* The task returned (ok) or threw: the finally block records the time and
\* releases.
PaceFinish(s, ok) ==
  LET c == caller[s].chat IN
  /\ caller[s].pc = "send"
  /\ lastChatSendAt' = SetLastSendAt(c, ok)
  /\ sendEnded' = (c :> [at |-> now, ok |-> ok]) @@ sendEnded
  /\ SetQueue(Release(Queue, s, c))
  /\ caller' = [caller EXCEPT ![s] = [pc |-> "idle", chat |-> "c1",
                                      wake |-> 0, since |-> 0]]
  /\ UNCHANGED <<core, extra, sortIn, sortOut, now, op>>

PaceNext ==
  \/ \E d \in Elapses : Elapse(d)
  \/ \E s \in Pacers : \E c \in Chats : PaceCall(s, c)
  \/ \E s \in Pacers : PaceAcquire(s)
  \/ \E s \in Pacers : PaceWake(s)
  \/ \E s \in Pacers : \E ok \in BOOLEAN : PaceFinish(s, ok)

PaceSpec == PaceInit /\ [][PaceNext]_vars

\* ------------------------------------- sendArticle's task and the retry loop
RETRYABLE_NETWORK_CODES ==
  {"ECONNRESET", "ETIMEDOUT", "EAI_AGAIN", "ENOTFOUND", "ECONNABORTED",
   "ECONNREFUSED", "EPIPE"}
RETRY_AFTER_BUFFER_MS == 500
maxAttempts == 5
\* let waitMs = 600
WaitMsStart == 600
\* waitMs = Math.min(waitMs * 2, 10_000)
WaitMsCap == 10000

\* An error a Telegram call rejects with: a network code ("" for none), an
\* HTTP status or error_code (0 for none), and response.parameters.retry_after
\* in seconds when it is there.
TgError(code, status, hasRa, ra) ==
  [code |-> code, status |-> status, hasRa |-> hasRa, ra |-> ra]

NoError == TgError("", 0, FALSE, 0)

Errors ==
  { TgError("ETIMEDOUT", 0, FALSE, 0),
    TgError("EPROTO", 0, FALSE, 0),
    TgError("", 429, TRUE, 1),
    TgError("", 429, TRUE, 30),
    TgError("", 429, TRUE, 0),
    TgError("", 429, FALSE, 0),
    TgError("", 500, FALSE, 0),
    TgError("", 503, FALSE, 0),
    TgError("", 400, FALSE, 0),
    TgError("", 403, FALSE, 0) }

\* (mutant) every error is retried
IsRetryableAlways(e) == TRUE

IsRetryableTelegramError(e) ==
  \/ e.code \in RETRYABLE_NETWORK_CODES
  \/ e.status = 429
  \/ e.status >= 500

\* (mutant) the delay the server names is not read
HasRetryAfterNever(e) == FALSE

\* getTelegramRetryAfterMs(err) is not null: retry_after is a finite number
\* above 0
HasRetryAfter(e) == e.hasRa /\ e.ra > 0

\* retryAfter * 1_000 + RETRY_AFTER_BUFFER_MS
GetTelegramRetryAfterMs(e) == e.ra * 1000 + RETRY_AFTER_BUFFER_MS

\* const effectiveWaitMs = retryAfterMs ?? waitMs
EffectiveWaitMs(e, waitMs) ==
  IF HasRetryAfter(e) THEN GetTelegramRetryAfterMs(e) ELSE waitMs

Min(a, b) == IF a < b THEN a ELSE b

\* runWithTelegramRetry is entered for one operation
NewOperation(o, stage) ==
  [o EXCEPT !.pc = "call", !.stage = stage, !.attempt = 1,
            !.waitMs = WaitMsStart, !.calls = 0, !.err = NoError,
            !.slept = 0]

\* (mutant) the text send is tried after every failed image send
FallsBackAlways(e) == TRUE

\* sendArticle: catch (err) { if (isRetryableTelegramError(err)) throw err; }
FallsBack(e) == ~IsRetryableTelegramError(e)

\* sendArticle's task begins, for an article with or without an image.
ArticleInit ==
  /\ config = CHOOSE k \in Configs : k.thread # {}
  /\ jobs = {}
  /\ ledger = [f \in Feeds |-> ClearedRows]
  /\ lastChecked = {}
  /\ proc = [p \in Procs |-> Idle]
  /\ started = 0
  /\ received = [f \in Feeds |-> [g \in Guids |-> {}]]
  /\ chain = [c \in Chats |-> <<>>]
  /\ awaiting = [p \in Procs |-> {}]
  /\ caller = <<>>
  /\ sortIn = <<>>
  /\ sortOut = <<>>
  /\ now = 0
  /\ lastChatSendAt = <<>>
  /\ sendEnded = <<>>
  /\ ExtraParked
  /\ \E img \in BOOLEAN :
       op = NewOperation([hasImage |-> img, photoErr |-> NoError,
                          pc |-> "call", stage |-> "text", attempt |-> 1,
                          waitMs |-> WaitMsStart, calls |-> 0,
                          err |-> NoError, slept |-> 0],
                         IF img THEN "photo" ELSE "text")

\* `return await fn()`: the call resolves. After sendPhoto the task returns;
\* after sendMessage too.
FnReturns ==
  /\ op.pc = "call"
  /\ op' = [op EXCEPT !.pc = "done", !.calls = @ + 1]
  /\ UNCHANGED <<core, extra, chain, awaiting, caller, sortIn, sortOut, now,
                 lastChatSendAt, sendEnded>>

\* The call rejects with e. The loop rethrows on the last attempt or for an
\* error that is not retryable, and otherwise sleeps; a rethrown sendPhoto
\* error either ends the task or leads to the sendMessage operation.
FnThrows(e) ==
  /\ op.pc = "call"
  /\ op' =
       LET o == [op EXCEPT !.calls = @ + 1, !.err = e] IN
       IF op.attempt >= maxAttempts \/ ~IsRetryableTelegramError(e)
         THEN IF op.stage = "photo" /\ FallsBack(e)
                THEN NewOperation([o EXCEPT !.photoErr = e], "text")
                ELSE [o EXCEPT !.pc = "failed"]
         ELSE [o EXCEPT !.pc = "sleep",
                        !.slept = EffectiveWaitMs(e, op.waitMs)]
  /\ UNCHANGED <<core, extra, chain, awaiting, caller, sortIn, sortOut, now,
                 lastChatSendAt, sendEnded>>

\* await sleep(effectiveWaitMs) returns: attempt++, waitMs doubles up to the
\* cap, and fn is called again.
SleepDone ==
  /\ op.pc = "sleep"
  /\ op' = [op EXCEPT !.pc = "call", !.attempt = @ + 1,
                      !.waitMs = Min(@ * 2, WaitMsCap)]
  /\ UNCHANGED <<core, extra, chain, awaiting, caller, sortIn, sortOut, now,
                 lastChatSendAt, sendEnded>>

ArticleNext ==
  \/ FnReturns
  \/ \E e \in Errors : FnThrows(e)
  \/ SleepDone

\* Every Telegram call resolves or rejects and every sleep ends.
ArticleSpec == ArticleInit /\ [][ArticleNext]_vars /\ WF_vars(ArticleNext)

\* ------------------------------------------------- the sort of checkFeed alone
\* Publish times parseFeed can return: none, or a time before or after the
\* epoch.
Times == {-1, 1, 2}
GuidAt == <<"a", "b", "c", "d", "e">>
ParsedItems ==
  UNION { { [k \in 1..n |-> Item(GuidAt[k], d[k], IF d[k] THEN t[k] ELSE 0)] :
              d \in [1..n -> BOOLEAN], t \in [1..n -> Times] } :
          n \in 1..MaxItems }

SortInit ==
  /\ config = CHOOSE k \in Configs : k.thread # {}
  /\ jobs = {}
  /\ ledger = [f \in Feeds |-> ClearedRows]
  /\ lastChecked = {}
  /\ proc = [p \in Procs |-> Idle]
  /\ started = 0
  /\ received = [f \in Feeds |-> [g \in Guids |-> {}]]
  /\ chain = [c \in Chats |-> <<>>]
  /\ awaiting = [p \in Procs |-> {}]
  /\ caller = <<>>
  /\ sortIn \in ParsedItems
  /\ sortOut = <<>>
  /\ TimedParked
  /\ ExtraParked

\* const itemsToSend = [...parsedFeed.items].sort(...)
SortItems ==
  /\ sortOut = <<>>
  /\ sortOut' = ItemsToSend(sortIn)
  /\ UNCHANGED <<core, extra, chain, awaiting, caller, sortIn, timed>>

SortNext == SortItems

SortSpec == SortInit /\ [][SortNext]_vars

\* ------------------------------------------- the scheduler's registry alone
\* scheduler/index.ts with node-cron. `jobs` is the Map (feed id -> the task
\* it holds), `tasks` the cron tasks created so far: a task fires its callback
\* at the ticks of its expression for as long as it was not stopped, whether
\* or not an earlier callback of it is still in flight.

\* the variables SchedSpec leaves alone
notSched == <<config, ledger, lastChecked, proc, started, received, chain,
              awaiting, caller, sortIn, sortOut, timed, cron, phase,
              topicVars, late>>

Scheduled == DOMAIN jobs
LiveTasks == {t \in DOMAIN tasks : tasks[t].live}
Call(what, f, t) == [what |-> what, feed |-> f, task |-> t]

\* task.stop()
StopTask(ts, t) == [ts EXCEPT ![t].live = FALSE]

\* jobs.delete(id)
Delete(jb, f) == [g \in DOMAIN jb \ {f} |-> jb[g]]

\* an unscheduleFeed that forgets the task without stopping it
UnscheduledNoStop(jb, ts, f) ==
  IF f \in DOMAIN jb THEN [jobs |-> Delete(jb, f), tasks |-> ts]
                     ELSE [jobs |-> jb, tasks |-> ts]

\* unscheduleFeed(feedId): the registry and the tasks it leaves
Unscheduled(jb, ts, f) ==
  IF f \in DOMAIN jb
    THEN [jobs |-> Delete(jb, f), tasks |-> StopTask(ts, jb[f])]
    ELSE [jobs |-> jb, tasks |-> ts]

SchedInit ==
  /\ config = CHOOSE k \in Configs : k.thread # {}
  /\ jobs = <<>>
  /\ ledger = [f \in Feeds |-> ClearedRows]
  /\ lastChecked = {}
  /\ proc = [p \in Procs |-> Idle]
  /\ started = 0
  /\ received = [f \in Feeds |-> [g \in Guids |-> {}]]
  /\ chain = [c \in Chats |-> <<>>]
  /\ awaiting = [p \in Procs |-> {}]
  /\ caller = <<>>
  /\ sortIn = <<>>
  /\ sortOut = <<>>
  /\ TimedParked
  /\ ExtraParked

\* the task a scheduleFeed creates and registers, given what its
\* unscheduleFeed left
Registered(u, f) ==
  [jobs  |-> (f :> (Len(u.tasks) + 1)) @@ u.jobs,
   tasks |-> Append(u.tasks, [feed |-> f, live |-> TRUE, threw |-> FALSE])]

\* a scheduleFeed that does not remove the existing job first
ScheduleFeedKeepOld(f) ==
  /\ Len(tasks) < MaxTasks
  /\ LET r == Registered([jobs |-> jobs, tasks |-> tasks], f)
     IN /\ jobs' = r.jobs
        /\ tasks' = r.tasks
        /\ checks' = Append(checks, 0)
        /\ lastCall' = Call("schedule", f, Len(r.tasks))
  /\ UNCHANGED notSched

\* scheduleFeed(feedId, intervalMinutes), called by startScheduler for every
\* active feed and by the feeds API on create and update
ScheduleFeed(f) ==
  /\ Len(tasks) < MaxTasks
  /\ LET r == Registered(Unscheduled(jobs, tasks, f), f)
     IN /\ jobs' = r.jobs
        /\ tasks' = r.tasks
        /\ checks' = Append(checks, 0)
        /\ lastCall' = Call("schedule", f, Len(r.tasks))
  /\ UNCHANGED notSched

\* unscheduleFeed(feedId), called by the feeds API on deactivate and delete
UnscheduleFeed(f) ==
  /\ LET u == Unscheduled(jobs, tasks, f)
     IN /\ jobs' = u.jobs
        /\ tasks' = u.tasks
  /\ lastCall' = Call("unschedule", f, 0)
  /\ UNCHANGED <<checks, notSched>>

\* stopScheduler(): every registered task is stopped and forgotten
StopScheduler ==
  /\ tasks' = [t \in DOMAIN tasks |->
                 IF t \in {jobs[g] : g \in DOMAIN jobs} THEN [tasks[t] EXCEPT !.live = FALSE]
                                       ELSE tasks[t]]
  /\ jobs' = <<>>
  /\ lastCall' = Call("stop", "f1", 0)
  /\ UNCHANGED <<checks, notSched>>

\* A tick of task t's expression: node-cron calls the callback, which calls
\* checkFeed(feedId) and awaits it.
Fire(t) ==
  /\ tasks[t].live
  /\ checks[t] < Cardinality(Procs)
  /\ checks' = [checks EXCEPT ![t] = @ + 1]
  /\ lastCall' = Call("fire", tasks[t].feed, t)
  /\ UNCHANGED <<jobs, tasks, notSched>>

\* the callback's checkFeed resolves
CheckReturns(t) ==
  /\ checks[t] > 0
  /\ checks' = [checks EXCEPT ![t] = @ - 1]
  /\ lastCall' = Call("returned", tasks[t].feed, t)
  /\ UNCHANGED <<jobs, tasks, notSched>>

\* a callback without the try/catch: the rejection is unhandled and the
\* process ends, with every timer
AfterThrowUnhandled(ts, t) ==
  [k \in DOMAIN ts |-> [ts[k] EXCEPT !.live = FALSE, !.threw = (k = t) \/ @]]

\* the tasks once a callback of task t caught a rejection of its checkFeed:
\* catch (err) { console.error(...) }
AfterThrow(ts, t) == [ts EXCEPT ![t].threw = TRUE]

\* the callback's checkFeed rejects (a store error, a topic resolution
\* error, ...)
CheckThrows(t) ==
  /\ checks[t] > 0
  /\ checks' = [checks EXCEPT ![t] = @ - 1]
  /\ tasks' = AfterThrow(tasks, t)
  /\ lastCall' = Call("threw", tasks[t].feed, t)
  /\ UNCHANGED <<jobs, notSched>>

SchedNext ==
  \/ \E f \in Feeds : ScheduleFeed(f)
  \/ \E f \in Feeds : UnscheduleFeed(f)
  \/ StopScheduler
  \/ \E t \in DOMAIN tasks : Fire(t)
  \/ \E t \in DOMAIN tasks : CheckReturns(t)
  \/ \E t \in DOMAIN tasks : CheckThrows(t)

SchedSpec == SchedInit /\ [][SchedNext]_vars

\* ------------------------------------------------- one timer's expression
\* intervalToCron and the ticks node-cron gives the expression it returns. The
\* clock counts the minutes of a day and wraps at midnight.

\* the interval lengths scheduleFeed is called with (the feeds API accepts the
\* integers 1..1440)
Intervals == {1, 7, 15, 45, 59, 60, 90, 300, 1440}

\* intervalToCron(minutes): "*/m * * * *" below an hour, "0 */h * * *" from an
\* hour on
IntervalToCron(minutes) ==
  LET m == IF minutes < 1 THEN 1 ELSE minutes
  IN IF m >= 60 THEN [field |-> "hour", step |-> m \div 60]
                ELSE [field |-> "minute", step |-> m]

\* node-cron: does the expression match minute `clock` of the day? A step
\* value */k of a field matches the values of the field's range (0..59,
\* 0..23) that k divides.
Matches(expr, clock) ==
  IF expr.field = "hour"
    THEN clock % 60 = 0 /\ (clock \div 60) % expr.step = 0
    ELSE (clock % 60) % expr.step = 0

\* scheduleFeed(feedId, n): a new task replaces the feed's task
CronSchedule(n) ==
  /\ cron' = [cron EXCEPT !.n = n, !.last = -1, !.gap = 0]
  /\ UNCHANGED <<core, chain, awaiting, caller, sortIn, sortOut, timed,
                 schedVars, phase, topicVars, late>>

\* a minute passes; the task fires if its expression matches the new minute
CronTick ==
  /\ cron.n > 0
  /\ LET c == (cron.clock + 1) % (24 * 60)
     IN cron' =
          IF Matches(IntervalToCron(cron.n), c)
            THEN [cron EXCEPT !.clock = c, !.last = c,
                              !.gap = IF cron.last < 0 THEN 0
                                      ELSE (c - cron.last) % (24 * 60)]
            ELSE [cron EXCEPT !.clock = c]
  /\ UNCHANGED <<core, chain, awaiting, caller, sortIn, sortOut, timed,
                 schedVars, phase, topicVars, late>>

CronNext ==
  \/ \E n \in Intervals : CronSchedule(n)
  \/ CronTick

CronSpec == SchedInit /\ [][CronNext]_vars

\* ------------------------------------------------------------ the shutdown
\* index.ts, main: on SIGTERM or SIGINT, server.close(async () => {
\* stopScheduler(); await stopBot(); await prisma.$disconnect();
\* process.exit(0) }). The checks of SteadySpec run until the process exits.

\* the signal handler has called server.close
Signal ==
  /\ phase = "up"
  /\ phase' = "closing"
  /\ UNCHANGED <<core, chain, awaiting, caller, sortIn, sortOut, timed,
                 schedVars, cron, topicVars, late>>

\* the server has closed: stopScheduler(), then await stopBot()
ServerClosed ==
  /\ phase = "closing"
  /\ jobs' = {}
  /\ phase' = "stopBot"
  /\ UNCHANGED <<config, ledger, lastChecked, proc, started, received, chain,
                 awaiting, caller, sortIn, sortOut, timed, schedVars, cron,
                 topicVars, late>>

\* stopBot has resolved: await prisma.$disconnect()
BotStopped ==
  /\ phase = "stopBot"
  /\ phase' = "disconnect"
  /\ UNCHANGED <<core, chain, awaiting, caller, sortIn, sortOut, timed,
                 schedVars, cron, topicVars, late>>

\* $disconnect has resolved: process.exit(0). Nothing runs after it; the
\* invocations in flight stay where they were.
Exit ==
  /\ phase = "disconnect"
  /\ phase' = "exited"
  /\ UNCHANGED <<core, chain, awaiting, caller, sortIn, sortOut, timed,
                 schedVars, cron, topicVars, late>>

ShutdownNext ==
  \/ phase # "exited" /\ SteadyNext
  \/ Signal
  \/ ServerClosed
  \/ BotStopped
  \/ Exit

\* the process is up; two active feeds deliver to one chat
ShutdownInit == Init /\ config.thread = {"f2"}

ShutdownSpec == ShutdownInit /\ [][ShutdownNext]_vars

\* ------------------------------------------------- forum topics of one chat
\* bot/topics.ts, ensureTopicForSubscription, with its callers' use of the
\* value it returns. Every step is the code up to the next await; a store
\* call takes effect in the step that issues it. All subscriptions are of one
\* chat; thread id 0 stands for null.

TSubs == {"s1", "s2", "s3"}
Callers == {1, 2}

\* topicNameKey of a subscription: s1 and s2 are of feeds whose names
\* normalize to the same key; s3 is a subscription under another key, which
\* no call is made for
TopicKey(s) == IF s = "s3" THEN "other" ELSE "news"

Sharing(s) == {x \in TSubs : TopicKey(x) = TopicKey(s)}

NoCall == [pc |-> "idle", sub |-> "s1", force |-> FALSE, input |-> 0,
           tid |-> 0, ret |-> 0, why |-> "", raised |-> FALSE, target |-> 0]

TopicInit ==
  /\ config = CHOOSE k \in Configs : k.thread # {}
  /\ jobs = <<>>
  /\ ledger = [f \in Feeds |-> ClearedRows]
  /\ lastChecked = {}
  /\ proc = [p \in Procs |-> Idle]
  /\ started = 0
  /\ received = [f \in Feeds |-> [g \in Guids |-> {}]]
  /\ chain = [c \in Chats |-> <<>>]
  /\ awaiting = [p \in Procs |-> {}]
  /\ caller = <<>>
  /\ sortIn = <<>>
  /\ sortOut = <<>>
  /\ TimedParked
  /\ SchedParked
  /\ topicThreadId = [s \in TSubs |-> 0]
  /\ topics = <<>>
  /\ ensure = [c \in Callers |-> NoCall]

\* the variables TopicSpec leaves alone
notTopic == <<core, chain, awaiting, caller, sortIn, sortOut, timed,
              schedVars, cron, phase, late>>

\* the invocation returns v
Returns(r, v, why) == [r EXCEPT !.pc = "done", !.ret = v, !.why = why]

\* the invocation rejects
Rejects(r) == [r EXCEPT !.pc = "done", !.raised = TRUE, !.why = "store"]

\* A caller calls ensureTopicForSubscription for subscription s:
\*   "lazy"   checkFeed, or POST /api/subscriptions (/bulk) after the create:
\*            the subscription it read had no thread
\*   "fast"   a caller that passes the thread the subscription has
\*   "force"  checkFeed, after a send to the subscription's thread failed
\*            with a missing-topic error (forceRecreate: true)
EnsureStart(c, s, kind) ==
  /\ ensure[c].pc = "idle"
  /\ kind # "lazy" => topicThreadId[s] # 0
  /\ kind = "force" => ~topics[topicThreadId[s]].exists
  /\ ensure' = [ensure EXCEPT ![c] =
       [NoCall EXCEPT !.pc = "names", !.sub = s, !.force = (kind = "force"),
                      !.input = IF kind = "lazy" THEN 0 ELSE topicThreadId[s]]]
  /\ UNCHANGED <<topicThreadId, topics, notTopic>>

\* a fast path that is never taken
FastPathNever(r) == FALSE

\* if (!input.forceRecreate && typeof input.topicThreadId === 'number')
FastPath(r) == ~r.force /\ r.input # 0

\* await prisma.subscription.update({ data: { topicName, topicNameKey } })
\* has settled: the fast path, or the updateMany / findFirst is issued
EnsureNames(c) ==
  LET r == ensure[c] IN
  /\ r.pc = "names"
  /\ ensure' = [ensure EXCEPT ![c] =
       IF FastPath(r) THEN Returns(r, r.input, "fast")
       ELSE [r EXCEPT !.pc = IF r.force THEN "clear" ELSE "find"]]
  /\ UNCHANGED <<topicThreadId, topics, notTopic>>

\* forceRecreate: updateMany({ where: { chatId, topicNameKey },
\* data: { topicThreadId: null } }); a rejection leaves the function
EnsureClear(c, dbOk) ==
  LET r == ensure[c] IN
  /\ r.pc = "clear"
  /\ IF dbOk
       THEN /\ topicThreadId' = [s \in TSubs |->
                 IF s \in Sharing(r.sub) THEN 0 ELSE topicThreadId[s]]
            /\ ensure' = [ensure EXCEPT ![c].pc = "probe"]
       ELSE /\ ensure' = [ensure EXCEPT ![c] = Rejects(r)]
            /\ UNCHANGED topicThreadId
  /\ UNCHANGED <<topics, notTopic>>

\* findFirst({ where: { chatId, topicNameKey, topicThreadId: { not: null } } })
\* returns one of the matching rows, or null; a rejection leaves the function
EnsureFind(c, dbOk) ==
  LET r == ensure[c]
      found == {topicThreadId[s] : s \in Sharing(r.sub)} \ {0}
  IN
  /\ r.pc = "find"
  /\ IF ~dbOk THEN ensure' = [ensure EXCEPT ![c] = Rejects(r)]
     ELSE IF found = {} THEN ensure' = [ensure EXCEPT ![c].pc = "probe"]
     ELSE \E t \in found :
            ensure' = [ensure EXCEPT ![c].pc = "adopt", ![c].tid = t]
  /\ UNCHANGED <<topicThreadId, topics, notTopic>>

\* update of the own subscription with existing.topicThreadId, return
\* existing.topicThreadId (the store accepts the write)
EnsureAdopt(c) ==
  LET r == ensure[c] IN
  /\ r.pc = "adopt"
  /\ topicThreadId' = [topicThreadId EXCEPT ![r.sub] = r.tid]
  /\ ensure' = [ensure EXCEPT ![c] = Returns(r, r.tid, "reused")]
  /\ UNCHANGED <<topics, notTopic>>

\* a degradation that rejects instead
DegradesRaising(r, why) ==
  [r EXCEPT !.pc = "done", !.raised = TRUE, !.why = why]

\* return null when the chat is no forum (line 111) or in the catch of the
\* creation (lines 140-145)
Degrades(r, why) == Returns(r, 0, why)

\* isForumEnabledSupergroup(chatId) has resolved (false also when getChat
\* failed); if (!isForum) return null
EnsureProbe(c, isForum) ==
  LET r == ensure[c] IN
  /\ r.pc = "probe"
  /\ ensure' = [ensure EXCEPT ![c] =
       IF isForum THEN [r EXCEPT !.pc = "create"]
                  ELSE Degrades(r, "notforum")]
  /\ UNCHANGED <<topicThreadId, topics, notTopic>>

\* createForumTopic(chatId, topicName) has settled: a new topic with the next
\* thread id, or an error, which the catch turns into null
EnsureCreate(c, ok) ==
  LET r == ensure[c] IN
  /\ r.pc = "create"
  /\ IF ok
       THEN /\ Len(topics) < MaxTopics
            /\ topics' = Append(topics, [key |-> TopicKey(r.sub),
                                         exists |-> TRUE])
            /\ ensure' = [ensure EXCEPT ![c].pc = "fill",
                                        ![c].tid = Len(topics) + 1]
       ELSE /\ ensure' = [ensure EXCEPT ![c] = Degrades(r, "createfailed")]
            /\ UNCHANGED topics
  /\ UNCHANGED <<topicThreadId, notTopic>>

\* updateMany({ where: { chatId, topicNameKey, topicThreadId: null },
\* data: { topicThreadId: threadId } }); a rejection lands in the same catch
EnsureFill(c, dbOk) ==
  LET r == ensure[c] IN
  /\ r.pc = "fill"
  /\ IF dbOk
       THEN /\ topicThreadId' = [s \in TSubs |->
                 IF s \in Sharing(r.sub) /\ topicThreadId[s] = 0
                   THEN r.tid ELSE topicThreadId[s]]
            /\ ensure' = [ensure EXCEPT ![c].pc = "own"]
       ELSE /\ ensure' = [ensure EXCEPT ![c] = Degrades(r, "createfailed")]
            /\ UNCHANGED topicThreadId
  /\ UNCHANGED <<topics, notTopic>>

\* update of the own subscription with threadId, return threadId (the store
\* accepts the write)
EnsureOwn(c) ==
  LET r == ensure[c] IN
  /\ r.pc = "own"
  /\ topicThreadId' = [topicThreadId EXCEPT ![r.sub] = r.tid]
  /\ ensure' = [ensure EXCEPT ![c] = Returns(r, r.tid, "created")]
  /\ UNCHANGED <<topics, notTopic>>

\* What the caller sends the article to: a thread id, 0 for the chat's main
\* stream (sendArticle(bot, chatId, formatted, threadId ?? undefined)), -1
\* for no send. A rejection leaves checkFeed, or lands in catch
\* (recreateErr); after a forced recreation only a number is sent to.
Target(r) ==
  IF r.raised THEN -1
  ELSE IF r.force THEN (IF r.ret # 0 THEN r.ret ELSE -1)
  ELSE r.ret

\* the caller goes on with what the invocation returned
UseThread(c) ==
  LET r == ensure[c] IN
  /\ r.pc = "done"
  /\ ensure' = [ensure EXCEPT ![c].pc = "sent", ![c].target = Target(r)]
  /\ UNCHANGED <<topicThreadId, topics, notTopic>>

\* the caller is through with the subscription
CallerDone(c) ==
  /\ ensure[c].pc = "sent"
  /\ ensure' = [ensure EXCEPT ![c] = NoCall]
  /\ UNCHANGED <<topicThreadId, topics, notTopic>>

\* an administrator of the chat deletes a topic
TopicDeleted(t) ==
  /\ topics[t].exists
  /\ topics' = [topics EXCEPT ![t].exists = FALSE]
  /\ UNCHANGED <<topicThreadId, ensure, notTopic>>

TopicNext ==
  \/ \E c \in Callers, s \in Sharing("s1") :
       \E kind \in {"lazy", "fast", "force"} : EnsureStart(c, s, kind)
  \/ \E c \in Callers : EnsureNames(c)
  \/ \E c \in Callers, dbOk \in BOOLEAN : EnsureClear(c, dbOk)
  \/ \E c \in Callers, dbOk \in BOOLEAN : EnsureFind(c, dbOk)
  \/ \E c \in Callers : EnsureAdopt(c)
  \/ \E c \in Callers, isForum \in BOOLEAN : EnsureProbe(c, isForum)
  \/ \E c \in Callers, ok \in BOOLEAN : EnsureCreate(c, ok)
  \/ \E c \in Callers, dbOk \in BOOLEAN : EnsureFill(c, dbOk)
  \/ \E c \in Callers : EnsureOwn(c)
  \/ \E c \in Callers : UseThread(c)
  \/ \E c \in Callers : CallerDone(c)
  \/ \E t \in DOMAIN topics : TopicDeleted(t)

TopicSpec == TopicInit /\ [][TopicNext]_vars

\* ------------------------------------------- the forum capability cache
\* bot/topics.ts, isForumEnabledSupergroup for one chat: the cache entry
\* (set, isForum, checkedAt) and the calls in flight. lastDone is history:
\* when the last getChat that succeeded returned.

FORUM_CAPABILITY_TTL_MS == 300000

\* time passes
ProbeElapse ==
  /\ now < MaxProbeSteps * 30000
  /\ now' = now + 30000
  /\ UNCHANGED <<early, lastChatSendAt, sendEnded, op, late>>

\* isForumEnabledSupergroup(chatId) is called: const now = Date.now(); a
\* cached entry younger than the TTL is returned, else getChat is issued
IsForumCalled(c) ==
  /\ probe.call[c].pc = "idle"
  /\ probe' =
       IF probe.set /\ now - probe.checkedAt < FORUM_CAPABILITY_TTL_MS
         THEN probe
         ELSE [probe EXCEPT !.call[c] = [pc |-> "getChat", at |-> now]]
  /\ UNCHANGED <<early, timed, fetch, mgmt, login, bot>>

\* getChat has settled: on success the entry is set with checkedAt: now, the
\* time the call began with; on an error false is returned and nothing cached
GetChatSettled(c, ok, isForum) ==
  /\ probe.call[c].pc = "getChat"
  /\ probe' =
       IF ok THEN [probe EXCEPT !.set = TRUE, !.isForum = isForum,
                                !.checkedAt = probe.call[c].at,
                                !.lastDone = now,
                                !.call[c] = [pc |-> "idle", at |-> 0]]
             ELSE [probe EXCEPT !.call[c] = [pc |-> "idle", at |-> 0]]
  /\ UNCHANGED <<early, timed, fetch, mgmt, login, bot>>

ProbeNext ==
  \/ ProbeElapse
  \/ \E c \in Procs : IsForumCalled(c)
  \/ \E c \in Procs, ok, isForum \in BOOLEAN : GetChatSettled(c, ok, isForum)

ProbeSpec == SchedInit /\ [][ProbeNext]_vars

\* ------------------------------------------------------- the feed fetcher
\* rss/parser.ts, fetchUrlWithRetry and fetchUrl. A URL is what matters of
\* it here: whether its host is an IP literal, and whether the address (the
\* literal, or what the name resolves to) is a public unicast address.
\* `fetch` is one call: attempt and redirectsLeft, the URL called with and
\* the host of the request in flight, the last response, and as history
\* whether a connection to an address that is not public was opened (unsafe)
\* and the redirects followed in this attempt (hops).

MAX_ATTEMPTS == 3
BASE_DELAY_MS == 5000
MAX_DELAY_MS == 60000

Urls == [literal : BOOLEAN, safe : BOOLEAN]

\* validateUrlSafety(url): a hostname that is no IP literal is let through,
\* a literal must be of range 'unicast' (isSafeIP)
ValidateUrlSafety(u) == IF u.literal THEN u.safe ELSE TRUE

\* a test that takes every HTTP error for retryable
IsRetryableAnyHttp(f, e) == e = "http"

\* err instanceof FetchHttpError && (statusCode === 429 || 503)
IsRetryable(f, e) == e = "http" /\ f.status \in {429, 503}

\* fetchUrlWithRetry, catch (err): rethrow, or sleep for delayMs
Caught(f, e) ==
  IF ~IsRetryable(f, e) \/ f.attempt = MAX_ATTEMPTS
    THEN [f EXCEPT !.pc = "done", !.err = e]
    ELSE [f EXCEPT !.pc = "sleep", !.err = e,
            !.delayMs = IF f.retryAfter >= 0 THEN f.retryAfter * 1000
                        ELSE Min(BASE_DELAY_MS * 2 ^ (f.attempt - 1),
                                 MAX_DELAY_MS)]

\* fetchUrl(u, left) up to lib.get: the validation, then the request
Requested(f, u, left) ==
  IF ~ValidateUrlSafety(u) THEN Caught(f, "unsafe")
  ELSE [f EXCEPT !.pc = "request", !.host = u, !.left = left,
                 !.unsafe = @ \/ ~u.safe]

\* a redirect bound that is never reached
ExhaustedNever(f) == FALSE

\* if (redirectsLeft === 0) reject(new Error('Too many redirects'))
Exhausted(f) == f.left = 0

\* parseFeed calls fetchUrlWithRetry(url): attempt 1, fetchUrl(url)
FetchCalled(u) ==
  /\ fetch.pc = "idle"
  /\ fetch' = Requested([fetch EXCEPT !.attempt = 1, !.url = u], u, 5)
  /\ UNCHANGED <<early, timed, probe, mgmt, login, bot>>

\* The response callback of lib.get. retryAfter is the Retry-After header in
\* seconds, -1 when absent or not a number; hasLoc, whether there is a
\* Location header, and loc what it resolves to.
FetchResponded(status, allowed, hasLoc, loc, retryAfter) ==
  LET f == [fetch EXCEPT !.status = status, !.allowed = allowed,
                         !.retryAfter = retryAfter]
  IN
  /\ fetch.pc = "request"
  /\ fetch' =
       IF ~allowed /\ status = 200 THEN Caught(f, "ctype")
       ELSE IF status >= 300 /\ status < 400 /\ hasLoc
         THEN IF Exhausted(f) THEN Caught(f, "redirects")
              ELSE Requested([f EXCEPT !.hops = @ + 1], loc, f.left - 1)
       ELSE IF status >= 400 THEN Caught(f, "http")
       ELSE [f EXCEPT !.pc = "parsed"]
  /\ UNCHANGED <<early, timed, probe, mgmt, login, bot>>

\* req.on('error', reject), the timeout included
FetchFailed ==
  /\ fetch.pc = "request"
  /\ fetch' = Caught(fetch, "network")
  /\ UNCHANGED <<early, timed, probe, mgmt, login, bot>>

\* the sleep of fetchUrlWithRetry is over: the next attempt, fetchUrl(url)
FetchWoke ==
  /\ fetch.pc = "sleep"
  /\ fetch' = Requested([fetch EXCEPT !.attempt = @ + 1, !.hops = 0,
                                      !.err = ""], fetch.url, 5)
  /\ UNCHANGED <<early, timed, probe, mgmt, login, bot>>

FetchNext ==
  \/ \E u \in Urls : FetchCalled(u)
  \/ \E status \in {200, 206, 404} : \E allowed \in BOOLEAN :
       FetchResponded(status, allowed, FALSE, fetch.host, -1)
  \/ \E hasLoc \in BOOLEAN : \E loc \in Urls :
       FetchResponded(301, TRUE, hasLoc, loc, -1)
  \/ \E status \in {429, 503} : \E retryAfter \in {-1, 0, 2} :
       FetchResponded(status, TRUE, FALSE, fetch.host, retryAfter)
  \/ FetchFailed
  \/ FetchWoke

FetchSpec == SchedInit /\ [][FetchNext]_vars

\* --------------------------------- the delivery lock, with tasks that throw
\* (mutant) release and the time are skipped when the task threw: no finally
LockSettledOkOnly(s, ok) ==
  LET c == caller[s].chat IN
  /\ caller[s].pc = "send"
  /\ lastChatSendAt' = IF ok THEN SetLastSendAt(c, ok) ELSE lastChatSendAt
  /\ sendEnded' = (c :> [at |-> now, ok |-> ok]) @@ sendEnded
  /\ SetQueue(IF ok THEN Release(Queue, s, c) ELSE Queue)
  /\ caller' = [caller EXCEPT ![s] = [pc |-> "idle", chat |-> "c1"]]
  /\ UNCHANGED <<core, extra, sortIn, sortOut, now, op>>

\* `return await task()` returned (ok) or threw, and the finally block ran:
\* the time is recorded and `current` resolves
LockSettled(s, ok) ==
  LET c == caller[s].chat IN
  /\ caller[s].pc = "send"
  /\ lastChatSendAt' = SetLastSendAt(c, ok)
  /\ sendEnded' = (c :> [at |-> now, ok |-> ok]) @@ sendEnded
  /\ SetQueue(Release(Queue, s, c))
  /\ caller' = [caller EXCEPT ![s] = [pc |-> "idle", chat |-> "c1"]]
  /\ UNCHANGED <<core, extra, sortIn, sortOut, now, op>>

DrainNext ==
  \/ \E s \in Senders : \E c \in Chats : LockCall(s, c)
  \/ \E s \in Senders : LockStart(s)
  \/ \E s \in Senders : \E ok \in BOOLEAN : LockSettled(s, ok)

\* Every remote call returns or fails, so every task settles; a promise that
\* is resolved resumes what awaits it, and the pacing sleep ends.
DrainSpec ==
  /\ LockInit
  /\ [][DrainNext]_vars
  /\ \A s \in Senders : WF_vars(LockStart(s))
  /\ \A s \in Senders : WF_vars(\E ok \in BOOLEAN : LockSettled(s, ok))

\* ------------------------------------------- the feeds of the management API
\* mgmt.table is the Feed table ("new": an id not given out yet, "gone": a
\* deleted row), mgmt.jobs the keys of the scheduler's `jobs` map, mgmt.req
\* the requests of the feeds router in flight, and mgmt.boot startScheduler,
\* which main calls right after app.listen.
NoReq == [pc |-> "idle", feed |-> "f1", resched |-> FALSE, active |-> FALSE]

Exists(f) == mgmt.table[f] \in {"active", "paused"}

\* the store answers findMany({where: {active: true}}), or fails
FindManyCommitted(ok) ==
  /\ mgmt.boot.pc = "findMany"
  /\ mgmt' = [mgmt EXCEPT
                !.boot = [pc |-> IF ok THEN "found" ELSE "done",
                          found |-> IF ok
                                      THEN {f \in Feeds :
                                              mgmt.table[f] = "active"}
                                      ELSE {}]]
  /\ UNCHANGED <<early, timed, probe, fetch, login, bot>>

\* startScheduler resumes: scheduleFeed for each feed that was found
SchedulerStarted ==
  /\ mgmt.boot.pc = "found"
  /\ mgmt' = [mgmt EXCEPT !.jobs = @ \cup mgmt.boot.found,
                          !.boot = [pc |-> "done", found |-> {}]]
  /\ UNCHANGED <<early, timed, probe, fetch, login, bot>>

\* POST /api/feeds, and one feed of POST /api/feeds/import: the store creates
\* the row, active by default, or fails
PostFeed(q, f, ok) ==
  /\ mgmt.req[q].pc = "idle"
  /\ mgmt.table[f] = "new"
  /\ mgmt' = [mgmt EXCEPT
                !.table[f] = IF ok THEN "active" ELSE @,
                !.req[q] = [pc |-> "created", feed |-> f, resched |-> ok,
                            active |-> TRUE]]
  /\ UNCHANGED <<early, timed, probe, fetch, login, bot>>

\* the handler resumes after feed.create: scheduleFeed, or the catch
FeedCreated(q) ==
  LET r == mgmt.req[q] IN
  /\ r.pc = "created"
  /\ mgmt' = [mgmt EXCEPT
                !.jobs = IF r.resched THEN @ \cup {r.feed} ELSE @,
                !.req[q] = NoReq]
  /\ UNCHANGED <<early, timed, probe, fetch, login, bot>>

\* PUT /api/feeds/:id with `active` ("on", "off") or without it ("keep"),
\* with or without checkInterval: the store updates the row and returns it,
\* or throws (no such row, or a failure)
PutFeed(q, f, active, interval, ok) ==
  LET done == ok /\ Exists(f)
      after == CASE active = "on" -> "active"
                 [] active = "off" -> "paused"
                 [] OTHER -> mgmt.table[f] IN
  /\ mgmt.req[q].pc = "idle"
  /\ mgmt.table[f] # "new"
  /\ mgmt' = [mgmt EXCEPT
                !.table[f] = IF done THEN after ELSE @,
                !.req[q] = [pc |-> "updated", feed |-> f,
                            resched |-> done /\ (interval \/ active # "keep"),
                            active |-> after = "active"]]
  /\ UNCHANGED <<early, timed, probe, fetch, login, bot>>

\* the handler resumes after feed.update: scheduleFeed or unscheduleFeed by
\* the row that was returned, when the body had checkInterval or active
FeedUpdated(q) ==
  LET r == mgmt.req[q] IN
  /\ r.pc = "updated"
  /\ mgmt' = [mgmt EXCEPT
                !.jobs = IF ~r.resched THEN @
                         ELSE IF r.active THEN @ \cup {r.feed}
                         ELSE @ \ {r.feed},
                !.req[q] = NoReq]
  /\ UNCHANGED <<early, timed, probe, fetch, login, bot>>

\* DELETE /api/feeds/:id: await prisma.feed.findUnique
DeleteFeed(q, f) ==
  /\ mgmt.req[q].pc = "idle"
  /\ mgmt.table[f] # "new"
  /\ mgmt' = [mgmt EXCEPT !.req[q] = [NoReq EXCEPT !.pc = "find",
                                                   !.feed = f]]
  /\ UNCHANGED <<early, timed, probe, fetch, login, bot>>

\* the handler resumes: unscheduleFeed(id), then await prisma.feed.delete
FeedFound(q) ==
  LET r == mgmt.req[q] IN
  /\ r.pc = "find"
  /\ mgmt' = [mgmt EXCEPT !.jobs = @ \ {r.feed},
                          !.req[q].pc = "delete"]
  /\ UNCHANGED <<early, timed, probe, fetch, login, bot>>

\* the store deletes the row, or throws (no such row, or a failure); what is
\* left of the handler answers the request
FeedDeleted(q, ok) ==
  LET r == mgmt.req[q] IN
  /\ r.pc = "delete"
  /\ mgmt' = [mgmt EXCEPT
                !.table[r.feed] = IF ok /\ Exists(r.feed) THEN "gone" ELSE @,
                !.req[q] = NoReq]
  /\ UNCHANGED <<early, timed, probe, fetch, login, bot>>

FeedsNext ==
  \/ \E ok \in BOOLEAN : FindManyCommitted(ok)
  \/ SchedulerStarted
  \/ \E q \in Procs, f \in Feeds, ok \in BOOLEAN : PostFeed(q, f, ok)
  \/ \E q \in Procs : FeedCreated(q)
  \/ \E q \in Procs, f \in Feeds, a \in {"on", "off", "keep"},
        i, ok \in BOOLEAN : PutFeed(q, f, a, i, ok)
  \/ \E q \in Procs : FeedUpdated(q)
  \/ \E q \in Procs, f \in Feeds : DeleteFeed(q, f)
  \/ \E q \in Procs : FeedFound(q)
  \/ \E q \in Procs, ok \in BOOLEAN : FeedDeleted(q, ok)

FeedsSpec == SchedInit /\ [][FeedsNext]_vars

\* ------------------------------------------------- the login of one client
\* login is the client's entry of failedAttempts (has: there is one) and the
\* answer to the client's last POST /login with its time.
LOGIN_MAX_ATTEMPTS == 5
LOGIN_BASE_DELAY_MS == 1000
LOGIN_MAX_DELAY_MS == 300000
RESET_WINDOW_MS == 1800000

CalculateBackoffDelay(attempts) ==
  IF attempts <= LOGIN_MAX_ATTEMPTS THEN 0
  ELSE Min(LOGIN_BASE_DELAY_MS * 2 ^ (attempts - LOGIN_MAX_ATTEMPTS),
           LOGIN_MAX_DELAY_MS)

\* the entry has seen no attempt for the reset window
Expired(l) == l.has /\ now - l.lastAttempt > RESET_WINDOW_MS

\* getRemainingDelay(req).delayMs
GetRemainingDelay(l) ==
  IF ~l.has \/ Expired(l) THEN 0 ELSE l.delayMs

\* the entry after recordFailedAttempt(req)
RecordFailedAttempt(l) ==
  IF ~l.has \/ Expired(l)
    THEN [l EXCEPT !.has = TRUE, !.count = 1, !.lastAttempt = now,
                   !.delayMs = 0]
    ELSE [l EXCEPT !.count = @ + 1, !.lastAttempt = now,
                   !.delayMs = CalculateBackoffDelay(l.count + 1)]

\* the entry after failedAttempts.delete(clientId)
ClearFailedAttempts(l) ==
  [l EXCEPT !.has = FALSE, !.count = 0, !.lastAttempt = 0, !.delayMs = 0]

\* Time passes: 2 s, or the reset window and 1 ms.
LoginElapse(d) ==
  /\ now < MaxLoginSteps * 2000
  /\ now' = now + d
  /\ UNCHANGED <<early, lastChatSendAt, sendEnded, op, probe, fetch, mgmt,
                 login, bot>>

\* POST /login of the client, past loginLimiter: bruteForceProtection, then
\* the handler. The body has no password, a wrong one or the right one.
PostLogin(body) ==
  LET kept == IF Expired(login) THEN ClearFailedAttempts(login) ELSE login
      outcome == IF GetRemainingDelay(login) > 0 THEN "blocked"
                 ELSE IF body = "none" THEN "invalid"
                 ELSE IF body = "wrong" THEN "failed"
                 ELSE "ok"
      entry == CASE outcome = "failed" -> RecordFailedAttempt(kept)
                 [] outcome = "ok" -> ClearFailedAttempts(kept)
                 [] OTHER -> kept IN
  /\ login' = [entry EXCEPT !.res = [outcome |-> outcome, at |-> now]]
  /\ UNCHANGED <<early, timed, probe, fetch, mgmt, bot>>

LoginNext ==
  \/ \E d \in {2000, RESET_WINDOW_MS + 1} : LoginElapse(d)
  \/ \E body \in {"none", "wrong", "right"} : PostLogin(body)

LoginSpec == SchedInit /\ [][LoginNext]_vars

\* ------------------------------------------------------- the bot client
\* bot holds the module variables of bot/client.ts (true for a reference that
\* is not null), with the number of timeouts that are armed (timers), the time
\* the one `reconnectTimer` refers to is due, the number of launches that
\* have not settled (launches), the await the launch is at (pc), and whether
\* stopBot was the last of startBot and stopBot to act (stopped).
RECONNECT_DELAY_MS == 15000

\* (mutant) a timer is armed whatever the state
ScheduleReconnectAlways(b) ==
  [b EXCEPT !.reconnectTimer = TRUE, !.due = now + RECONNECT_DELAY_MS,
            !.timers = @ + 1]

\* scheduleReconnect()
ScheduleReconnect(b) ==
  IF ~b.botStarted \/ b.botConnected \/ b.reconnectTimer THEN b
  ELSE [b EXCEPT !.reconnectTimer = TRUE, !.due = now + RECONNECT_DELAY_MS,
                 !.timers = @ + 1]

\* if (reconnectTimer) { clearTimeout(reconnectTimer); reconnectTimer = null }
ClearReconnect(b) ==
  IF b.reconnectTimer THEN [b EXCEPT !.reconnectTimer = FALSE,
                                     !.timers = @ - 1]
  ELSE b

\* finally { botConnecting = false; launchInFlight = null }
LaunchSettled(b) ==
  [b EXCEPT !.botConnecting = FALSE, !.launchInFlight = FALSE,
            !.pc = "none", !.launches = @ - 1]

\* startBot() up to `await launchInFlight`: nothing when connected or when a
\* launch is in flight, else the launch begins and runs up to bot.launch
StartBotIn(b) ==
  IF b.botConnected \/ b.launchInFlight THEN b
  ELSE [b EXCEPT !.botInstance = TRUE, !.botStarted = TRUE,
                 !.botConnecting = TRUE, !.launchInFlight = TRUE,
                 !.pc = "launch", !.launches = @ + 1, !.stopped = FALSE]

\* Time passes.
BotElapse ==
  /\ now < MaxBotSteps * 5000
  /\ now' = now + 5000
  /\ UNCHANGED <<early, lastChatSendAt, sendEnded, op, probe, fetch, mgmt,
                 login, bot>>

\* startBot() is called, by main or by anyone
StartBot ==
  /\ bot' = StartBotIn(bot)
  /\ bot' # bot
  /\ UNCHANGED <<early, timed, probe, fetch, mgmt, login>>

\* await bot.launch(...) returns: ensureBotInfo() calls getBot(), which makes
\* an instance when there is none, and awaits getMe
Launched ==
  /\ bot.pc = "launch"
  /\ bot' = [bot EXCEPT !.pc = "info", !.botInstance = TRUE]
  /\ UNCHANGED <<early, timed, probe, fetch, mgmt, login>>

\* await ensureBotInfo() returns: the rest of try, then finally
Connected ==
  /\ bot.pc = "info"
  /\ bot' = LaunchSettled(ClearReconnect(
              [bot EXCEPT !.botConnected = TRUE, !.lastLaunchError = FALSE]))
  /\ UNCHANGED <<early, timed, probe, fetch, mgmt, login>>

\* bot.launch or ensureBotInfo throws: catch, then finally
LaunchFailed ==
  /\ bot.pc \in {"launch", "info"}
  /\ bot' = LaunchSettled(ScheduleReconnect(
              [bot EXCEPT !.botConnected = FALSE, !.lastLaunchError = TRUE,
                          !.failedAt = now]))
  /\ UNCHANGED <<early, timed, probe, fetch, mgmt, login>>

\* the timeout of scheduleReconnect fires, not before its time
ReconnectFires ==
  /\ bot.timers > 0
  /\ now >= bot.due
  /\ bot' = StartBotIn([bot EXCEPT !.reconnectTimer = FALSE,
                                   !.timers = @ - 1])
  /\ UNCHANGED <<early, timed, probe, fetch, mgmt, login>>

\* stopBot()
StopBot ==
  /\ bot' = [ClearReconnect(bot) EXCEPT
               !.botInstance = FALSE, !.botStarted = FALSE,
               !.botConnecting = FALSE, !.botConnected = FALSE,
               !.stopped = TRUE]
  /\ bot' # bot
  /\ UNCHANGED <<early, timed, probe, fetch, mgmt, login>>

BotNext ==
  \/ BotElapse
  \/ StartBot
  \/ Launched
  \/ Connected
  \/ LaunchFailed
  \/ ReconnectFires
  \/ StopBot

BotSpec == SchedInit /\ [][BotNext]_vars

\* ------------------------------------------------------------------ claims
Running(p) == proc[p].pc # "idle"
InSendPath(p) == proc[p].pc \in {"topic", "wait", "send", "recreate"}
HasRow(f, g) == ledger[f][g] # <<>>

\* C1: a cycle that began when the ledger already held the row of article A
\* (with no force-push of the feed since) never reaches the send path for A,
\* and the ledger never holds two rows for one (feedId, articleId).
C1_Dedup ==
  /\ \A p \in Procs :
       InSendPath(p) => CurGuid(proc[p]) \notin proc[p].known
  /\ \A f \in Feeds : \A g \in Guids : Len(ledger[f][g]) <= 1

\* C1 witness: a later cycle whose fetch returned the committed and delivered
\* article again has gone past it to the end of its loop.
C1_Witness ==
  \E p \in Procs :
    /\ proc[p].pc = "stamp"
    /\ \E k \in 1..Len(proc[p].items) :
         /\ proc[p].items[k].guid \in proc[p].known
         /\ received[proc[p].feed][proc[p].items[k].guid] # {}

\* C2: a ledger row is inserted only by a cycle in which a send of that
\* article succeeded; a cycle whose sends of the article all failed leaves the
\* loop body without the insert, a cycle with at least one success goes on to
\* the insert even if another subscription failed.
C2_CommitAfterSuccess ==
  [][ /\ \A f \in Feeds : \A g \in Guids :
          ledger'[f][g] # ledger[f][g] /\ ledger'[f][g] # <<>> =>
            \E p \in Procs : /\ proc[p].pc = "create"
                             /\ proc[p].feed = f
                             /\ CurGuid(proc[p]) = g
                             /\ proc[p].okChats # {}
                             /\ proc'[p].pc # "create"
      /\ \A p \in Procs :
          ( /\ proc[p].pc \in {"send", "recreate"}
            /\ proc[p].j = Len(proc[p].subs)
            /\ proc'[p].pc \notin {"send", "recreate", "wait", "idle"} )
          => ( proc'[p].pc = "create" <=>
                 (proc[p].okChats # {} \/ proc'[p].okChats # {}) )
    ]_vars

\* C2 witness: with two subscriptions, one send succeeded and the other
\* failed, and the cycle is at the insert.
C2_Witness ==
  \E p \in Procs :
    /\ proc[p].pc = "create"
    /\ Len(proc[p].subs) = 2
    /\ Cardinality(proc[p].okChats) = 1

\* C3: with no force-push and no crash, no article of a feed is sent
\* successfully twice to the same destination.
C3_AtMostOnce ==
  [][ \A p \in Procs :
        proc[p].pc = "send" =>
          \A c \in Chats :
            (c \in proc'[p].okChats /\ c \notin proc[p].okChats)
              => c \notin received[proc[p].feed][CurGuid(proc[p])]
    ]_vars

\* C5: a ledger row exists only for an article that some destination
\* received, whatever crashed; and a cycle that finds no row for an article
\* goes on to send it (again, if a crash lost the insert).
C5_CrashSafe ==
  /\ \A f \in Feeds : \A g \in Guids : HasRow(f, g) => received[f][g] # {}
  /\ \A p \in Procs : proc[p].pc = "create" =>
       received[proc[p].feed][CurGuid(proc[p])] # {}

\* C5 witness: after a crash between a send and its insert (no cycle has
\* ever ended, nothing is in flight), the next cycle is sending the article
\* again.
C5_Witness ==
  \E p \in Procs :
    /\ lastChecked = {}
    /\ \A q \in Procs \ {p} : ~Running(q)
    /\ proc[p].pc = "send"
    /\ proc[p].okChats = {}
    /\ CurChat(proc[p]) \in received[proc[p].feed][CurGuid(proc[p])]
    /\ ~HasRow(proc[p].feed, CurGuid(proc[p]))

\* C6: at most one checkFeed started by a feed's timer is in flight.
C6_NoTimerOverlap ==
  \A f \in Feeds :
    Cardinality({p \in Procs : Running(p) /\ proc[p].feed = f
                              /\ proc[p].origin = "timer"}) <= 1

\* C7: at most one checkFeed is in flight for a feed, whoever started it.
C7_OneCheckPerFeed ==
  \A f \in Feeds :
    Cardinality({p \in Procs : Running(p) /\ proc[p].feed = f}) <= 1

\* C8: no two sendArticle tasks on the same chat are in flight together.
C8_SerializedPerChat ==
  \A c \in Chats :
    Cardinality({p \in Procs : proc[p].pc = "send" /\ CurChat(proc[p]) = c}) <= 1

\* C8 witness: checks of two different feeds target the same chat; one is
\* sending and the other waits in the queue.
C8_Witness ==
  \E p, q \in Procs :
    /\ proc[p].pc = "send" /\ proc[q].pc = "wait"
    /\ proc[p].feed # proc[q].feed
    /\ CurChat(proc[p]) = CurChat(proc[q])

\* C9: a send that is running on a chat is the earliest-queued unfinished
\* send of that chat: no send queued before it is still waiting or running,
\* however the earlier ones ended.
C9_FifoPerChat ==
  \A s \in Senders :
    caller[s].pc = "send" =>
      /\ chain[caller[s].chat] # <<>>
      /\ chain[caller[s].chat][1] = s

\* C9 witness: three sends are queued on one chat, the first is running.
C9_Witness ==
  \E c \in Chats :
    /\ Len(chain[c]) >= 3
    /\ caller[chain[c][1]].pc = "send"
    /\ caller[chain[c][3]].pc = "wait"

\* Is article x to be attempted no later than article y: an undated article
\* before any other, dated ones by publish time.
NotAfter(x, y) ==
  IF ~x.dated THEN TRUE
  ELSE IF ~y.dated THEN FALSE
  ELSE x.time <= y.time

\* C10: the articles are attempted in non-decreasing publish-time order, the
\* undated ones first.
C10_OldestFirst ==
  sortOut # <<>> =>
    \A m, n \in 1..Len(sortOut) : m < n => NotAfter(sortOut[m], sortOut[n])
\* C4: once a cycle of f1 whose fetch returned article a has ended with a
\* received by nobody, a is attempted again and is eventually delivered and
\* in the ledger.
C4_RetriedUntilDelivered ==
  (\E p \in Procs : /\ proc[p].pc = "stamp"
                    /\ proc[p].feed = "f1"
                    /\ received["f1"]["a"] = {})
    ~> (HasRow("f1", "a") /\ received["f1"]["a"] # {})

\* C4 witness: a cycle of f1 has ended with a received by nobody, and the next
\* cycle is sending a again.
C4_Witness ==
  /\ "f1" \in lastChecked
  /\ received["f1"]["a"] = {}
  /\ ~HasRow("f1", "a")
  /\ \E p \in Procs : proc[p].pc = "send" /\ CurGuid(proc[p]) = "a"

\* C14: the forced recreation is entered only from the failed first send of a
\* subscription that had a thread; it leads to one more send of the same
\* article to the same subscription or to giving the subscription up; after
\* that second send the subscription is left whatever the outcome; and giving
\* up moves on to the other subscriptions.
C14_OneRecreation ==
  [][ \A p \in Procs :
        LET r == proc[p]
            n == proc'[p]
            same == n.i = r.i /\ n.j = r.j /\ n.pc \in {"wait", "send", "recreate"}
        IN /\ (n.pc = "recreate" /\ r.pc # "recreate")
                => r.pc = "send" /\ r.thread /\ ~r.retried /\ same
           /\ (r.pc = "recreate" /\ n # r)
                => \/ same /\ n.pc = "wait" /\ n.retried
                   \/ ~same
           /\ (r.pc = "send" /\ r.retried /\ n # r) => ~same
           /\ (r.pc \in {"send", "recreate"} /\ n # r /\ ~same
                 /\ r.j < Len(r.subs))
                => n.i = r.i /\ n.j = r.j + 1 /\ n.pc \in {"topic", "wait"}
    ]_vars

\* C14 witness: after a recreation the second send to the first of two
\* subscriptions is running.
C14_Witness ==
  \E p \in Procs :
    /\ proc[p].pc = "send"
    /\ proc[p].retried
    /\ Len(proc[p].subs) = 2
    /\ proc[p].j = 1

\* C16: an invocation that is handling a subscription (topic resolution,
\* queued or running send, recreation) does not end there: it goes on to the
\* next subscription, the insert, the next article or the final update.
C16_SubscriptionIsolation ==
  [][ \A p \in Procs :
        InSendPath(p) /\ proc'[p] # proc[p] => proc'[p].pc # "idle"
    ]_vars

\* C17: an invocation that returns right after loading the feed (inactive, or
\* no active subscription) has written lastCheckedAt.
C17_InactiveStillStamped ==
  [][ \A p \in Procs :
        proc[p].pc = "load" /\ proc'[p].pc = "idle"
          => proc[p].feed \in lastChecked'
    ]_vars

\* C18: when parseFeed fails the invocation goes to the lastCheckedAt update
\* with no send queued and no ledger write, the update is written before the
\* invocation ends, and parseFeed is called once per invocation.
C18_ParseFailureStamps ==
  [][ \A p \in Procs :
        LET r == proc[p]
            n == proc'[p]
        IN /\ (r.pc = "parse" /\ n.pc # "parse" /\ n.items = <<>>)
                => /\ n.pc = "stamp"
                   /\ ledger' = ledger /\ received' = received
                   /\ chain' = chain
           /\ (r.pc = "stamp" /\ n.pc # "stamp")
                => /\ n.pc = "idle"
                   /\ r.feed \in lastChecked'
                   /\ ledger' = ledger /\ received' = received
                   /\ chain' = chain
           /\ (n.pc = "parse" /\ r.pc # "parse") => r.pc = "load"
    ]_vars

\* C18 witness: an invocation whose parseFeed failed is at the update.
C18_Witness ==
  \E p \in Procs : proc[p].pc = "stamp" /\ proc[p].items = <<>>

\* The partial-outage case as a later cycle meets it: the cycle began with
\* the row of the article in the ledger, the feed has two subscriptions, one
\* has received the article and the other has not.
PartialOutage(r) ==
  /\ Len(r.subs) = 2
  /\ CurGuid(r) \in r.known
  /\ Cardinality(received[r.feed][CurGuid(r)] \cap Range(r.subs)) = 1

\* C20 as stated: in the partial-outage case the next cycle goes on from its
\* ledger lookup to the sends of the article.
C20_FailedDestinationRetried ==
  [][ \A p \in Procs :
        (proc[p].pc = "find" /\ PartialOutage(proc[p]) /\ proc'[p] # proc[p])
          => /\ proc'[p].i = proc[p].i
             /\ proc'[p].pc \in {"topic", "wait"}
    ]_vars

\* C20 amended: in the partial-outage case the next cycle skips the article
\* at its ledger lookup, for the destination that failed as for the other.
C20_FailedDestinationSkipped ==
  [][ \A p \in Procs :
        (proc[p].pc = "find" /\ PartialOutage(proc[p]) /\ proc'[p] # proc[p])
          => /\ proc'[p].pc \in {"find", "stamp"}
             /\ proc'[p].pc = "find" => proc'[p].i > proc[p].i
    ]_vars

\* C20 witness: a later cycle has ended its loop and the destination that
\* failed has still not received the article.
C20_Witness ==
  \E p \in Procs :
    /\ proc[p].pc = "stamp"
    /\ Len(proc[p].subs) = 2
    /\ proc[p].items # <<>>
    /\ proc[p].items[1].guid \in proc[p].known
    /\ Cardinality(received[proc[p].feed][proc[p].items[1].guid]) = 1

\* the ids of the articles of a document that have one
Usable(items) == {items[k].guid : k \in 1..Len(items)} \ {""}

\* C19: a check that began with no ledger row of its feed, alone, with every
\* article accepted by a subscription, writes lastCheckedAt in the step that
\* ends it, and by then every article with an id has been received and has
\* exactly one row, and the feed has no other row; lastCheckedAt is written
\* in no other step.
C19_FullPush ==
  [][ /\ \A p \in Procs :
          LET r == proc[p] IN
          (r.pc = "stamp" /\ proc'[p].pc = "idle" /\ r.known = {}
             /\ r.items # <<>>)
            => /\ \A g \in Guids :
                    IF g \in Usable(r.items)
                      THEN Len(ledger[r.feed][g]) = 1
                           /\ received[r.feed][g] # {}
                      ELSE ledger[r.feed][g] = <<>>
               /\ r.feed \in lastChecked'
      /\ lastChecked' # lastChecked =>
           \E p \in Procs : /\ proc[p].pc = "stamp"
                             /\ proc'[p].pc = "idle"
                             /\ lastChecked' = lastChecked \cup {proc[p].feed}
    ]_vars

\* C19 witness: the check started by a force-push, after an earlier check of
\* the feed had ended, has sent both articles again and is at the update.
C19_Witness ==
  \E p \in Procs :
    /\ proc[p].pc = "stamp"
    /\ proc[p].origin = "manual"
    /\ proc[p].known = {}
    /\ proc[p].feed \in lastChecked
    /\ Cardinality(Usable(proc[p].items)) = 2
    /\ \A g \in Usable(proc[p].items) : HasRow(proc[p].feed, g)

\* C11: a send that is running on a chat started at least
\* PER_CHAT_MIN_INTERVAL_MS after the previous send on that chat ended,
\* however that one ended.
C11_MinSpacing ==
  \A s \in Pacers :
    (caller[s].pc = "send" /\ caller[s].chat \in DOMAIN sendEnded)
      => caller[s].since - sendEnded[caller[s].chat].at
           >= PER_CHAT_MIN_INTERVAL_MS

\* C11 witness: the previous send on the chat failed, the next call slept and
\* its send started exactly one interval after that end.
C11_Witness ==
  \E s \in Pacers :
    /\ caller[s].pc = "send"
    /\ caller[s].chat \in DOMAIN sendEnded
    /\ ~sendEnded[caller[s].chat].ok
    /\ caller[s].wake = caller[s].since
    /\ caller[s].since - sendEnded[caller[s].chat].at = PER_CHAT_MIN_INTERVAL_MS

\* an error the claims call retryable: a transient network code, HTTP 429 or
\* HTTP 500 and above
StatedRetryable(e) ==
  \/ e.code \in {"ECONNRESET", "ETIMEDOUT", "EAI_AGAIN", "ENOTFOUND",
                  "ECONNABORTED", "ECONNREFUSED", "EPIPE"}
  \/ e.status = 429
  \/ e.status >= 500

\* C12: one operation calls Telegram at most maxAttempts times; it waits for
\* another attempt only after a retryable error and with attempts left; and
\* the task always comes to an end.
C12_BoundedRetry ==
  /\ [](/\ op.calls <= 5
        /\ op.pc = "sleep" => StatedRetryable(op.err) /\ op.calls < 5
        /\ op.pc = "call" => op.calls = op.attempt - 1)
  /\ <>(op.pc \in {"done", "failed"})

\* C12 witness: the fifth attempt of an operation has failed with a
\* retryable error and the operation has thrown.
C12_Witness ==
  /\ op.pc = "failed"
  /\ op.calls = 5
  /\ op.err.status = 503

\* 2^n
RECURSIVE Pow2(_)
Pow2(n) == IF n = 0 THEN 1 ELSE 2 * Pow2(n - 1)

C15_ImageFailureNeverFails ==
  (op.hasImage /\ op.pc = "failed") => op.stage = "text"

\* C15 amended: the image send comes first; the text send follows only an
\* image send that failed with an error that is not retryable; and the task
\* fails on the image send only with a retryable error on the last attempt.
C15_FallbackOnNonRetryable ==
  /\ (op.hasImage /\ op.stage = "text")
       => op.photoErr # NoError /\ ~StatedRetryable(op.photoErr)
  /\ (op.hasImage /\ op.stage = "photo")
       => /\ op.photoErr = NoError
          /\ op.pc = "failed" => StatedRetryable(op.err) /\ op.calls = 5
  /\ ~op.hasImage => op.stage = "text"

\* C15 witness: the image send failed with HTTP 400 and the text send that
\* followed succeeded.
C15_Witness ==
  /\ op.hasImage
  /\ op.stage = "text"
  /\ op.pc = "done"
  /\ op.photoErr.status = 400

\* C21: each feed has at most one live (unstopped) timer and it is the one the
\* registry holds for the feed, and the registry holds live timers of the
\* right feed only; a scheduleFeed on a scheduled feed leaves the old timer
\* stopped.
C21_OneTimerPerFeed ==
  /\ \A f \in Feeds :
       Cardinality({t \in LiveTasks : tasks[t].feed = f}) <= 1
  /\ \A t \in LiveTasks :
       tasks[t].feed \in Scheduled /\ jobs[tasks[t].feed] = t
  /\ \A f \in Scheduled : jobs[f] \in LiveTasks /\ tasks[jobs[f]].feed = f

\* a scheduleFeed has just replaced the timer of a scheduled feed
C21_Witness ==
  /\ lastCall.what = "schedule"
  /\ jobs[lastCall.feed] = lastCall.task
  /\ \E t \in DOMAIN tasks : tasks[t].feed = lastCall.feed /\ ~tasks[t].live

\* C22: a timer's callback starts only for a task the registry holds, so none
\* starts for a feed between its unscheduleFeed (or stopScheduler) and its
\* next scheduleFeed; unscheduleFeed leaves the feed out of the registry and,
\* on a feed that has no timer, changes nothing; stopScheduler leaves the
\* registry empty.
C22_NoFiringOnceUnscheduled ==
  [][/\ \A t \in DOMAIN checks :
          checks'[t] > checks[t] =>
            tasks[t].feed \in Scheduled /\ jobs[tasks[t].feed] = t
     /\ lastCall'.what = "unschedule" =>
          /\ lastCall'.feed \notin DOMAIN jobs'
          /\ lastCall'.feed \notin Scheduled =>
               jobs' = jobs /\ tasks' = tasks /\ checks' = checks
     /\ lastCall'.what = "stop" => jobs' = <<>> /\ LiveTasks' = {}]_vars

\* unscheduleFeed has just cancelled the timer of a feed while a callback of
\* that timer is in flight and another feed's timer is live
C22_Witness ==
  /\ lastCall.what = "unschedule"
  /\ \E t \in DOMAIN tasks :
       tasks[t].feed = lastCall.feed /\ ~tasks[t].live /\ checks[t] > 0
  /\ \E t \in LiveTasks : tasks[t].feed # lastCall.feed

\* C24: when the checkFeed of a callback rejects, the callback catches it: the
\* registry is as before, every timer is as live as before (so the feed's
\* timer fires at its next tick), and the callbacks in flight of the other
\* timers are as before.
C24_ErrorContained ==
  [][\A t \in DOMAIN tasks :
       (lastCall'.what = "threw" /\ lastCall'.task = t
          /\ checks'[t] < checks[t]) =>
         /\ jobs' = jobs
         /\ \A k \in DOMAIN tasks : tasks'[k].live = tasks[k].live
         /\ \A k \in DOMAIN tasks \ {t} : checks'[k] = checks[k]]_vars

\* a timer has fired again after a callback of it caught a rejection, while a
\* callback of another feed's timer is in flight
C24_Witness ==
  /\ lastCall.what = "fire"
  /\ tasks[lastCall.task].threw
  /\ jobs[lastCall.feed] = lastCall.task
  /\ \E k \in LiveTasks : tasks[k].feed # lastCall.feed /\ checks[k] > 0

\* C23: for 1 <= N < 60 two consecutive firings of the timer scheduleFeed(id, N)
\* creates are exactly N minutes apart, and for N >= 60 the timer fires on
\* hour boundaries only.
C23_EveryNMinutes ==
  cron.gap # 0 =>
    /\ cron.n < 60 => cron.gap = cron.n
    /\ cron.n >= 60 => cron.last % 60 = 0

\* C25: when the process exits on a shutdown, no delivery attempt is in
\* flight: every send that had started has run to its end.
C25_SendsFinishBeforeExit ==
  phase = "exited" => \A p \in Procs : proc[p].pc # "send"

\* an invocation without forceRecreate for a subscription with a thread
FastCall(r) == r.pc # "idle" /\ ~r.force /\ r.input # 0

\* C26: an invocation without forceRecreate for a subscription that has a
\* thread returns that thread id without raising, never gets to the lookup,
\* the capability probe or the creation, and none of its steps changes a
\* stored topicThreadId or the chat's topics.
C26_FastPath ==
  /\ [](\A c \in Callers :
          FastCall(ensure[c]) =>
            /\ ensure[c].pc \in {"names", "done", "sent"}
            /\ ensure[c].pc \in {"done", "sent"} =>
                 ensure[c].ret = ensure[c].input /\ ~ensure[c].raised)
  /\ [][\A c \in Callers :
          (FastCall(ensure'[c]) /\ ensure'[c] # ensure[c]) =>
            topicThreadId' = topicThreadId /\ topics' = topics]_vars

\* the fast path has returned the stored thread to its caller while another
\* invocation is creating a topic
C26_Witness ==
  \E c, d \in Callers :
    /\ ensure[c].pc = "sent"
    /\ ensure[c].why = "fast"
    /\ ensure[c].target = topicThreadId[ensure[c].sub]
    /\ ensure[d].pc = "fill"

\* C27: the subscriptions of the chat that share a topic key and have a
\* thread all have the same one.
C27_SharedThread ==
  \A s \in TSubs : \A x \in Sharing(s) :
    topicThreadId[s] # 0 /\ topicThreadId[x] # 0 =>
      topicThreadId[s] = topicThreadId[x]

\* C28: no topic is created for a key while a topic created for that key
\* exists and is the stored thread of a subscription of that key, and a
\* stored thread is unset only by the updateMany of a forced recreation.
C28_NoDuplicateTopic ==
  [][/\ Len(topics') > Len(topics) =>
          ~\E s \in TSubs :
             /\ TopicKey(s) = topics'[Len(topics')].key
             /\ topicThreadId[s] # 0
             /\ topics[topicThreadId[s]].exists
     /\ \A s \in TSubs :
          (topicThreadId[s] # 0 /\ topicThreadId'[s] = 0) =>
            \E c \in Callers :
              /\ ensure[c].pc = "clear" /\ ensure[c].force
              /\ ensure'[c].pc = "probe"
              /\ s \in Sharing(ensure[c].sub)]_vars

\* C29: when an invocation that created a topic returns, every subscription
\* sharing the key holds the new thread id; and the updateMany of a forced
\* recreation leaves no subscription sharing the key with a thread.
C29_AllShareCreated ==
  [][\A c \in Callers :
       /\ (ensure[c].pc = "own" /\ ensure'[c].pc = "done") =>
            \A s \in Sharing(ensure[c].sub) :
              topicThreadId'[s] = ensure[c].tid
       /\ (ensure[c].pc = "clear" /\ ensure'[c].pc = "probe") =>
            \A s \in Sharing(ensure[c].sub) : topicThreadId'[s] = 0]_vars

\* the invocation found the chat to be no forum, or the creation failed
Degraded(r) == r.pc \in {"done", "sent"} /\ r.why \in {"notforum", "createfailed"}

\* C30, as claimed: when the chat is no forum or the creation fails, the
\* invocation returns null without raising and the caller sends the article
\* to the chat's main stream.
C30_MainStreamAlways ==
  \A c \in Callers :
    Degraded(ensure[c]) =>
      /\ ~ensure[c].raised /\ ensure[c].ret = 0
      /\ ensure[c].pc = "sent" => ensure[c].target = 0

\* C30, amended: when the chat is no forum or the creation fails, the
\* invocation returns null without raising; the caller of a lazy resolution
\* then sends the article to the chat's main stream, and the caller of a
\* forced recreation sends nothing more to the subscription.
C30_MainStreamOnLazy ==
  \A c \in Callers :
    Degraded(ensure[c]) =>
      /\ ~ensure[c].raised /\ ensure[c].ret = 0
      /\ ensure[c].pc = "sent" =>
           ensure[c].target = IF ensure[c].force THEN -1 ELSE 0

\* a lazy resolution whose creation failed was followed by a send to the main
\* stream, and a forced recreation for a chat that is no forum by no send
C30_Witness ==
  \E c, d \in Callers :
    /\ ensure[c].pc = "sent" /\ ensure[c].why = "createfailed"
    /\ ~ensure[c].force /\ ensure[c].target = 0
    /\ ensure[d].pc = "sent" /\ ensure[d].why = "notforum"
    /\ ensure[d].force /\ ensure[d].target = -1

\* C31: no getChat is issued within 5 minutes of the return of a getChat that
\* succeeded.
C31_ProbeReused ==
  [][\A c \in Procs :
       (probe.call[c].pc = "idle" /\ probe'.call[c].pc = "getChat") =>
         \/ probe.lastDone < 0
         \/ now - probe.lastDone >= FORUM_CAPABILITY_TTL_MS]_vars

\* C32: the fetcher never opens a connection to a host whose address, given
\* as a literal or found by resolving the name, is private, loopback or
\* link-local.
C32_NoPrivateConnection == ~fetch.unsafe

\* C33: one attempt follows at most 5 redirects, the sixth redirect ends it
\* with the too-many-redirects error, and the host of every request, the
\* initial one and each redirect target, has passed validateUrlSafety.
C33_RedirectBound ==
  /\ fetch.hops <= 5
  /\ fetch.err = "redirects" => fetch.hops = 5
  /\ fetch.pc = "request" => ValidateUrlSafety(fetch.host)

\* the sixth redirect of an attempt has ended the fetch
C33_Witness ==
  fetch.pc = "done" /\ fetch.err = "redirects" /\ fetch.hops = 5

\* C34: a body handed to the parser after a 2xx response came with a
\* feed-like content type.
C34_ContentTypeChecked ==
  (fetch.pc = "parsed" /\ fetch.status >= 200 /\ fetch.status < 300) =>
    fetch.allowed

\* C35: the fetcher sleeps and re-attempts only after a 429 or 503 response,
\* for the Retry-After delay when there is one and else for 5 s doubled per
\* attempt made, at most 60 s; it makes at most 3 attempts; any other error
\* ends the fetch at the attempt it happens in.
C35_RetryPolicy ==
  /\ fetch.attempt <= 3
  /\ fetch.pc = "sleep" =>
       /\ fetch.err = "http" /\ fetch.status \in {429, 503}
       /\ fetch.delayMs =
            IF fetch.retryAfter >= 0 THEN fetch.retryAfter * 1000
            ELSE Min(5000 * Pow2(fetch.attempt - 1), 60000)
  /\ (fetch.err # "" /\ ~(fetch.err = "http" /\ fetch.status \in {429, 503}))
       => fetch.pc = "done"

\* the second attempt got a 503 without Retry-After and the fetcher sleeps
\* for 10 s
C35_Witness ==
  /\ fetch.pc = "sleep" /\ fetch.attempt = 2 /\ fetch.status = 503
  /\ fetch.retryAfter < 0 /\ fetch.delayMs = 10000

\* C36: the chat id stored in a ledger row belongs to a subscription whose
\* send of that article succeeded in the cycle that commits the row.
C36_RowOfSuccessfulDestination ==
  [][\A p \in Procs :
       LET r == proc[p]
           f == r.feed
           g == CurGuid(r) IN
       (r.pc = "create" /\ proc'[p].pc # "create"
          /\ Len(ledger'[f][g]) > Len(ledger[f][g])) =>
         ledger'[f][g][Len(ledger'[f][g])] \in r.okChats]_vars

\* C37: when no request of the feeds router and no startScheduler is in
\* progress, the feeds with a timer are the existing feeds that are active.
C37_RegistryIsActiveFeeds ==
  ((\A q \in Procs : mgmt.req[q].pc = "idle") /\ mgmt.boot.pc = "done") =>
    mgmt.jobs = {f \in Feeds : mgmt.table[f] = "active"}

\* C38: a send that throws releases the chat's queue and records the time as
\* one that returns does, and every call queued for a chat starts its send.
C38_FailureDoesNotBlock ==
  /\ [](\A c \in DOMAIN sendEnded : c \in DOMAIN lastChatSendAt
                                    /\ lastChatSendAt[c] = sendEnded[c].at)
  /\ [][\A s \in Senders :
          (caller[s].pc = "send" /\ caller'[s].pc = "idle") =>
            /\ s \notin Range(chain'[caller[s].chat])
            /\ \A x \in Senders : s \notin awaiting'[x]]_vars
  /\ \A s \in Senders : (caller[s].pc = "wait") ~> (caller[s].pc = "send")

\* the last send that ended on a chat threw, and the call queued behind it
\* has started its send
C38_Witness ==
  \E s \in Senders :
    /\ caller[s].pc = "send"
    /\ caller[s].chat \in DOMAIN sendEnded
    /\ ~sendEnded[caller[s].chat].ok

\* C39: a login attempt is blocked only while the backoff delay of the
\* client's failed attempts, 0 up to 5 attempts and then 1 s * 2^(attempts-5),
\* at most 5 minutes, has not yet passed since the last failed attempt.
C39_BlockedOnlyWhileDelayRuns ==
  login.res.outcome = "blocked" =>
    /\ login.count > 5
    /\ login.res.at - login.lastAttempt
         < Min(1000 * Pow2(login.count - 5), 300000)

====
